---------------------------- MODULE Spec2Model ----------------------------
(***************************************************************************)
(* bulbb: backlight and LED brightness through /sys/class/backlight and    *)
(* /sys/class/leds.                                                        *)
(*                                                                         *)
(* The library keeps no state of its own: every query reads the class      *)
(* directories again.  The state of the model is therefore the file tree   *)
(* the library works on, the system bus of the dbus build and the outcome  *)
(* of the most recent call; two set_brightness calls running at the same   *)
(* time have their positions in `callers`.  Text is a                      *)
(* sequence of one-character strings, so that split(':'), trim(),          *)
(* parse::<u32>(), to_string() and contains() are computed on characters.  *)
(* A u32 is a pair of 16-bit limbs [hi, lo], value hi * 2^16 + lo.         *)
(***************************************************************************)
EXTENDS Integers, Sequences, FiniteSets

VARIABLES
    fs,         \* the two class directories: root state and entries
    bus,        \* the system bus and logind, as the dbus build sees them
    backend,    \* the build: "direct" (file write) or "dbus" (cfg feature)
    last,       \* the most recent call: operation, arguments, outcome
    before,     \* the set_brightness right before `last`, if there was one
    changes,    \* how often the file tree or the bus has been changed so far
    parse,      \* LedInfo::from_string, statement by statement
    callers,    \* two set_brightness calls in progress at the same time
    scan        \* a lookup or listing in progress, system call by system call

vars == <<fs, bus, backend, last, before, changes, parse, callers, scan>>

---------------------------------------------------------------------------
\* Bounds of the model.

\* The file tree and the bus are changed at most this often, by the
\* environment or by a set_brightness that succeeds.
MaxChanges == 1

\* Names given to LedInfo::from_string have at most this many ':'-separated
\* segments (empty ones included).
MaxSegments == 4

\* The LED root of the trees with freely named entries holds at most this
\* many entries.
MaxEntries == 2

---------------------------------------------------------------------------
\* Option<T>: None is the empty sequence, Some(x) the sequence of x alone.

None == << >>
Some(x) == << x >>
IsSome(o) == o # << >>
Unwrap(o) == o[1]

\* Result<T, Error>, with a third outcome for a call that does not return.
Ok(v) == [tag |-> "Ok", val |-> v]
Err(e) == [tag |-> "Err", err |-> e]
Panicked(why) == [tag |-> "Panic", why |-> why]

IsOk(r) == r.tag = "Ok"
IsErr(r) == r.tag = "Err"
IsPanic(r) == r.tag = "Panic"

\* enum Error (src/error.rs)
Io(kind) == [kind |-> "Io", io |-> kind]
ParseBrightnessError(why) == [kind |-> "ParseBrightnessError", why |-> why]
InvalidDeviceName(device) == [kind |-> "InvalidDeviceName", device |-> device]
InvalidBrightnessLevel(given, max) ==
    [kind |-> "InvalidBrightnessLevel", given |-> given, max |-> max]
SetBrightnessDBusError(why) == [kind |-> "SetBrightnessDBusError", why |-> why]

---------------------------------------------------------------------------
\* u32 as two 16-bit limbs.

Limb == 256 * 256

U32(n) == [hi |-> n \div Limb, lo |-> n % Limb]

\* u32::MAX = 4294967295
U32Max == [hi |-> Limb - 1, lo |-> Limb - 1]

U32Le(a, b) == a.hi < b.hi \/ (a.hi = b.hi /\ a.lo <= b.lo)
U32Gt(a, b) == ~U32Le(a, b)

Digits == <<"0", "1", "2", "3", "4", "5", "6", "7", "8", "9">>
IsDigit(c) == \E d \in 1..10 : Digits[d] = c
DigitVal(c) == (CHOOSE d \in 1..10 : Digits[d] = c) - 1
DigitChar(d) == Digits[d + 1]

\* acc.checked_mul(10)?.checked_add(d)?: None on overflow of 32 bits.
CheckedMul10Add(acc, d) ==
    LET lo10 == acc.lo * 10 + d
        hi10 == acc.hi * 10 + (lo10 \div Limb)
    IN IF hi10 >= Limb THEN None
       ELSE Some([hi |-> hi10, lo |-> lo10 % Limb])

RECURSIVE ParseDigits(_, _)
ParseDigits(acc, s) ==
    IF s = << >> THEN [ok |-> TRUE, val |-> acc]
    ELSE IF ~IsDigit(Head(s)) THEN [ok |-> FALSE, why |-> "InvalidDigit"]
    ELSE LET nxt == CheckedMul10Add(acc, DigitVal(Head(s)))
         IN IF nxt = None THEN [ok |-> FALSE, why |-> "PosOverflow"]
            ELSE ParseDigits(Unwrap(nxt), Tail(s))

\* str::parse::<u32>(): an optional '+', then decimal digits; the empty
\* string, a lone sign, a '-', any other character and a value above
\* u32::MAX are errors.
ParseU32(s) ==
    IF s = << >> THEN [ok |-> FALSE, why |-> "Empty"]
    ELSE IF Len(s) = 1 /\ Head(s) \in {"+", "-"}
         THEN [ok |-> FALSE, why |-> "InvalidDigit"]
    ELSE IF Head(s) = "+" THEN ParseDigits(U32(0), Tail(s))
    ELSE ParseDigits(U32(0), s)

\* v / 10 and v % 10 on the limbs.
DivMod10(v) ==
    LET t == (v.hi % 10) * Limb + v.lo
    IN [q |-> [hi |-> v.hi \div 10, lo |-> t \div 10], r |-> t % 10]

\* u32::to_string(): the decimal digits, most significant first, no sign,
\* no leading zero, no newline.
RECURSIVE U32ToString(_)
U32ToString(v) ==
    IF v.hi = 0 /\ v.lo < 10 THEN << DigitChar(v.lo) >>
    ELSE U32ToString(DivMod10(v).q) \o << DigitChar(DivMod10(v).r) >>

---------------------------------------------------------------------------
\* Text.

WhiteSpace == {" ", "\n", "\t", "\r"}

RECURSIVE TrimStart(_)
TrimStart(s) ==
    IF s = << >> \/ Head(s) \notin WhiteSpace THEN s ELSE TrimStart(Tail(s))

RECURSIVE TrimEnd(_)
TrimEnd(s) ==
    IF s = << >> \/ s[Len(s)] \notin WhiteSpace THEN s
    ELSE TrimEnd(SubSeq(s, 1, Len(s) - 1))

\* str::trim()
Trim(s) == TrimEnd(TrimStart(s))

\* str::contains(pat): pat occurs in s as a contiguous run of characters.
Contains(s, pat) ==
    \E i \in 1..(Len(s) - Len(pat) + 1) : SubSeq(s, i, i + Len(pat) - 1) = pat

\* s.split(':').collect::<Vec<&str>>(): the pieces between the colons, empty
\* pieces included; a string without a colon is one piece.
RECURSIVE SplitFrom(_, _, _)
SplitFrom(s, cur, i) ==
    IF i > Len(s) THEN << cur >>
    ELSE IF s[i] = ":" THEN << cur >> \o SplitFrom(s, << >>, i + 1)
    ELSE SplitFrom(s, Append(cur, s[i]), i + 1)

Split(s) == SplitFrom(s, << >>, 1)

\* Vec::retain(|x| !x.is_empty())
RetainNonEmpty(v) == SelectSeq(v, LAMBDA x : x # << >>)

\* Vec::remove(idx): the vector without its element at the 0-based idx.
RemoveAt(v, idx) == SubSeq(v, 1, idx) \o SubSeq(v, idx + 2, Len(v))

\* The segments joined with ':' (what split(':') takes apart).
RECURSIVE JoinColon(_)
JoinColon(segs) ==
    IF segs = << >> THEN << >>
    ELSE IF Len(segs) = 1 THEN segs[1]
    ELSE segs[1] \o <<":">> \o JoinColon(Tail(segs))

---------------------------------------------------------------------------
\* enum LedColor: the closed set of colour variants.
LedColor ==
    { "White", "Red", "Green", "Blue", "Amber", "Violet",
      "Yellow", "Ir", "Multi", "Rgb", "Max" }

\* enum LedFunction: the closed set of function variants.
LedFunction ==
    { "CapsLock", "ScrollLock", "NumLock", "KbdBacklight", "Power", "Disk",
      "Charging", "Status", "MicMute", "Mute", "Player1", "Player2",
      "Player3", "Player4", "Player5", "Activity", "Alarm", "Backlight",
      "Bluetooth", "Boot", "Cpu", "Debug", "DiskActivity", "DiskErr",
      "DiskRead", "DiskWrite", "Fault", "Flash", "Heartbeat", "Indicator",
      "Lan", "Mail", "Mtd", "Panic", "Programming", "Rx",
      "Sd", "Standby", "Torch", "Tx", "Usb", "Wan",
      "Wlan", "Wps" }

\* LedColor::from_id: exact match of the token, anything else is None.
LedColor_from_id(s) ==
    CASE s = <<"w", "h", "i", "t", "e">> -> Some("White")
      [] s = <<"r", "e", "d">> -> Some("Red")
      [] s = <<"g", "r", "e", "e", "n">> -> Some("Green")
      [] s = <<"b", "l", "u", "e">> -> Some("Blue")
      [] s = <<"a", "m", "b", "e", "r">> -> Some("Amber")
      [] s = <<"v", "i", "o", "l", "e", "t">> -> Some("Violet")
      [] s = <<"y", "e", "l", "l", "o", "w">> -> Some("Yellow")
      [] s = <<"i", "r">> -> Some("Ir")
      [] s = <<"m", "u", "l", "t", "i">> -> Some("Multi")
      [] s = <<"r", "g", "b">> -> Some("Rgb")
      [] s = <<"m", "a", "x">> -> Some("Max")
      [] OTHER -> None

\* impl Display for LedColor (to_string).
LedColor_to_string(v) ==
    CASE v = "White" -> <<"w", "h", "i", "t", "e">>
      [] v = "Red" -> <<"r", "e", "d">>
      [] v = "Green" -> <<"g", "r", "e", "e", "n">>
      [] v = "Blue" -> <<"b", "l", "u", "e">>
      [] v = "Amber" -> <<"a", "m", "b", "e", "r">>
      [] v = "Violet" -> <<"v", "i", "o", "l", "e", "t">>
      [] v = "Yellow" -> <<"y", "e", "l", "l", "o", "w">>
      [] v = "Ir" -> <<"i", "r">>
      [] v = "Multi" -> <<"m", "u", "l", "t", "i">>
      [] v = "Rgb" -> <<"r", "g", "b">>
      [] v = "Max" -> <<"m", "a", "x">>

\* LedFunction::from_id: exact match of the token, anything else is None.
LedFunction_from_id(s) ==
    CASE s = <<"c", "a", "p", "s", "l", "o", "c", "k">> -> Some("CapsLock")
      [] s = <<"s", "c", "r", "o", "l", "l", "l", "o", "c", "k">> -> Some("ScrollLock")
      [] s = <<"n", "u", "m", "l", "o", "c", "k">> -> Some("NumLock")
      [] s = <<"k", "b", "d", "_", "b", "a", "c", "k", "l", "i", "g", "h", "t">> -> Some("KbdBacklight")
      [] s = <<"p", "o", "w", "e", "r">> -> Some("Power")
      [] s = <<"d", "i", "s", "k">> -> Some("Disk")
      [] s = <<"c", "h", "a", "r", "g", "i", "n", "g">> -> Some("Charging")
      [] s = <<"s", "t", "a", "t", "u", "s">> -> Some("Status")
      [] s = <<"m", "i", "c", "m", "u", "t", "e">> -> Some("MicMute")
      [] s = <<"m", "u", "t", "e">> -> Some("Mute")
      [] s = <<"p", "l", "a", "y", "e", "r", "-", "1">> -> Some("Player1")
      [] s = <<"p", "l", "a", "y", "e", "r", "-", "2">> -> Some("Player2")
      [] s = <<"p", "l", "a", "y", "e", "r", "-", "3">> -> Some("Player3")
      [] s = <<"p", "l", "a", "y", "e", "r", "-", "4">> -> Some("Player4")
      [] s = <<"p", "l", "a", "y", "e", "r", "-", "5">> -> Some("Player5")
      [] s = <<"a", "c", "t", "i", "v", "i", "t", "y">> -> Some("Activity")
      [] s = <<"a", "l", "a", "r", "m">> -> Some("Alarm")
      [] s = <<"b", "a", "c", "k", "l", "i", "g", "h", "t">> -> Some("Backlight")
      [] s = <<"b", "l", "u", "e", "t", "o", "o", "t", "h">> -> Some("Bluetooth")
      [] s = <<"b", "o", "o", "t">> -> Some("Boot")
      [] s = <<"c", "p", "u">> -> Some("Cpu")
      [] s = <<"d", "e", "b", "u", "g">> -> Some("Debug")
      [] s = <<"d", "i", "s", "k", "-", "a", "c", "t", "i", "v", "i", "t", "y">> -> Some("DiskActivity")
      [] s = <<"d", "i", "s", "k", "-", "e", "r", "r">> -> Some("DiskErr")
      [] s = <<"d", "i", "s", "k", "-", "r", "e", "a", "d">> -> Some("DiskRead")
      [] s = <<"d", "i", "s", "k", "-", "w", "r", "i", "t", "e">> -> Some("DiskWrite")
      [] s = <<"f", "a", "u", "l", "t">> -> Some("Fault")
      [] s = <<"f", "l", "a", "s", "h">> -> Some("Flash")
      [] s = <<"h", "e", "a", "r", "t", "b", "e", "a", "t">> -> Some("Heartbeat")
      [] s = <<"i", "n", "d", "i", "c", "a", "t", "o", "r">> -> Some("Indicator")
      [] s = <<"l", "a", "n">> -> Some("Lan")
      [] s = <<"m", "a", "i", "l">> -> Some("Mail")
      [] s = <<"m", "t", "d">> -> Some("Mtd")
      [] s = <<"p", "a", "n", "i", "c">> -> Some("Panic")
      [] s = <<"p", "r", "o", "g", "r", "a", "m", "m", "i", "n", "g">> -> Some("Programming")
      [] s = <<"r", "x">> -> Some("Rx")
      [] s = <<"s", "d">> -> Some("Sd")
      [] s = <<"s", "t", "a", "n", "d", "b", "y">> -> Some("Standby")
      [] s = <<"t", "o", "r", "c", "h">> -> Some("Torch")
      [] s = <<"t", "x">> -> Some("Tx")
      [] s = <<"u", "s", "b">> -> Some("Usb")
      [] s = <<"w", "a", "n">> -> Some("Wan")
      [] s = <<"w", "l", "a", "n">> -> Some("Wlan")
      [] s = <<"w", "p", "s">> -> Some("Wps")
      [] OTHER -> None

\* impl Display for LedFunction (to_string).
LedFunction_to_string(v) ==
    CASE v = "CapsLock" -> <<"c", "a", "p", "s", "l", "o", "c", "k">>
      [] v = "ScrollLock" -> <<"s", "c", "r", "o", "l", "l", "l", "o", "c", "k">>
      [] v = "NumLock" -> <<"n", "u", "m", "l", "o", "c", "k">>
      [] v = "KbdBacklight" -> <<"k", "b", "d", "_", "b", "a", "c", "k", "l", "i", "g", "h", "t">>
      [] v = "Power" -> <<"p", "o", "w", "e", "r">>
      [] v = "Disk" -> <<"d", "i", "s", "k">>
      [] v = "Charging" -> <<"c", "h", "a", "r", "g", "i", "n", "g">>
      [] v = "Status" -> <<"s", "t", "a", "t", "u", "s">>
      [] v = "MicMute" -> <<"m", "i", "c", "m", "u", "t", "e">>
      [] v = "Mute" -> <<"m", "u", "t", "e">>
      [] v = "Player1" -> <<"p", "l", "a", "y", "e", "r", "-", "1">>
      [] v = "Player2" -> <<"p", "l", "a", "y", "e", "r", "-", "2">>
      [] v = "Player3" -> <<"p", "l", "a", "y", "e", "r", "-", "3">>
      [] v = "Player4" -> <<"p", "l", "a", "y", "e", "r", "-", "4">>
      [] v = "Player5" -> <<"p", "l", "a", "y", "e", "r", "-", "5">>
      [] v = "Activity" -> <<"a", "c", "t", "i", "v", "i", "t", "y">>
      [] v = "Alarm" -> <<"a", "l", "a", "r", "m">>
      [] v = "Backlight" -> <<"b", "a", "c", "k", "l", "i", "g", "h", "t">>
      [] v = "Bluetooth" -> <<"b", "l", "u", "e", "t", "o", "o", "t", "h">>
      [] v = "Boot" -> <<"b", "o", "o", "t">>
      [] v = "Cpu" -> <<"c", "p", "u">>
      [] v = "Debug" -> <<"d", "e", "b", "u", "g">>
      [] v = "DiskActivity" -> <<"d", "i", "s", "k", "-", "a", "c", "t", "i", "v", "i", "t", "y">>
      [] v = "DiskErr" -> <<"d", "i", "s", "k", "-", "e", "r", "r">>
      [] v = "DiskRead" -> <<"d", "i", "s", "k", "-", "r", "e", "a", "d">>
      [] v = "DiskWrite" -> <<"d", "i", "s", "k", "-", "w", "r", "i", "t", "e">>
      [] v = "Fault" -> <<"f", "a", "u", "l", "t">>
      [] v = "Flash" -> <<"f", "l", "a", "s", "h">>
      [] v = "Heartbeat" -> <<"h", "e", "a", "r", "t", "b", "e", "a", "t">>
      [] v = "Indicator" -> <<"i", "n", "d", "i", "c", "a", "t", "o", "r">>
      [] v = "Lan" -> <<"l", "a", "n">>
      [] v = "Mail" -> <<"m", "a", "i", "l">>
      [] v = "Mtd" -> <<"m", "t", "d">>
      [] v = "Panic" -> <<"p", "a", "n", "i", "c">>
      [] v = "Programming" -> <<"p", "r", "o", "g", "r", "a", "m", "m", "i", "n", "g">>
      [] v = "Rx" -> <<"r", "x">>
      [] v = "Sd" -> <<"s", "d">>
      [] v = "Standby" -> <<"s", "t", "a", "n", "d", "b", "y">>
      [] v = "Torch" -> <<"t", "o", "r", "c", "h">>
      [] v = "Tx" -> <<"t", "x">>
      [] v = "Usb" -> <<"u", "s", "b">>
      [] v = "Wan" -> <<"w", "a", "n">>
      [] v = "Wlan" -> <<"w", "l", "a", "n">>
      [] v = "Wps" -> <<"w", "p", "s">>

---------------------------------------------------------------------------
\* The conversions of LedColor and LedFunction to text (src/misc/linux.rs).

LowerCase == <<"a", "b", "c", "d", "e", "f", "g", "h", "i", "j", "k", "l", "m", "n", "o", "p", "q", "r", "s", "t", "u", "v", "w", "x", "y", "z">>

UpperCase == <<"A", "B", "C", "D", "E", "F", "G", "H", "I", "J", "K", "L", "M", "N", "O", "P", "Q", "R", "S", "T", "U", "V", "W", "X", "Y", "Z">>

\* char::to_ascii_uppercase.
ToUpper(c) ==
    IF \E i \in 1..26 : LowerCase[i] = c
    THEN UpperCase[CHOOSE i \in 1..26 : LowerCase[i] = c]
    ELSE c

\* s with its first character in upper case.
UpperFirst(s) ==
    IF s = << >> THEN s ELSE <<ToUpper(s[1])>> \o SubSeq(s, 2, Len(s))

\* The conversion answering with the token capitalised, as the name of the
\* variant is written.
LedColor_into_capitalised(target, val) == UpperFirst(LedColor_to_string(val))

\* impl From<LedColor> and From<&LedColor> for &str and for String: the four
\* conversions, each with its own table.  `target` names the impl.
LedColor_into(target, val) ==
    CASE target = "&str" ->
        (CASE val = "White" -> <<"w", "h", "i", "t", "e">>
           [] val = "Red" -> <<"r", "e", "d">>
           [] val = "Green" -> <<"g", "r", "e", "e", "n">>
           [] val = "Blue" -> <<"b", "l", "u", "e">>
           [] val = "Amber" -> <<"a", "m", "b", "e", "r">>
           [] val = "Violet" -> <<"v", "i", "o", "l", "e", "t">>
           [] val = "Yellow" -> <<"y", "e", "l", "l", "o", "w">>
           [] val = "Ir" -> <<"i", "r">>
           [] val = "Multi" -> <<"m", "u", "l", "t", "i">>
           [] val = "Rgb" -> <<"r", "g", "b">>
           [] val = "Max" -> <<"m", "a", "x">>)
      [] target = "&str from &" ->
        (CASE val = "White" -> <<"w", "h", "i", "t", "e">>
           [] val = "Red" -> <<"r", "e", "d">>
           [] val = "Green" -> <<"g", "r", "e", "e", "n">>
           [] val = "Blue" -> <<"b", "l", "u", "e">>
           [] val = "Amber" -> <<"a", "m", "b", "e", "r">>
           [] val = "Violet" -> <<"v", "i", "o", "l", "e", "t">>
           [] val = "Yellow" -> <<"y", "e", "l", "l", "o", "w">>
           [] val = "Ir" -> <<"i", "r">>
           [] val = "Multi" -> <<"m", "u", "l", "t", "i">>
           [] val = "Rgb" -> <<"r", "g", "b">>
           [] val = "Max" -> <<"m", "a", "x">>)
      [] target = "String" ->
        (CASE val = "White" -> <<"w", "h", "i", "t", "e">>
           [] val = "Red" -> <<"r", "e", "d">>
           [] val = "Green" -> <<"g", "r", "e", "e", "n">>
           [] val = "Blue" -> <<"b", "l", "u", "e">>
           [] val = "Amber" -> <<"a", "m", "b", "e", "r">>
           [] val = "Violet" -> <<"v", "i", "o", "l", "e", "t">>
           [] val = "Yellow" -> <<"y", "e", "l", "l", "o", "w">>
           [] val = "Ir" -> <<"i", "r">>
           [] val = "Multi" -> <<"m", "u", "l", "t", "i">>
           [] val = "Rgb" -> <<"r", "g", "b">>
           [] val = "Max" -> <<"m", "a", "x">>)
      [] target = "String from &" ->
        (CASE val = "White" -> <<"w", "h", "i", "t", "e">>
           [] val = "Red" -> <<"r", "e", "d">>
           [] val = "Green" -> <<"g", "r", "e", "e", "n">>
           [] val = "Blue" -> <<"b", "l", "u", "e">>
           [] val = "Amber" -> <<"a", "m", "b", "e", "r">>
           [] val = "Violet" -> <<"v", "i", "o", "l", "e", "t">>
           [] val = "Yellow" -> <<"y", "e", "l", "l", "o", "w">>
           [] val = "Ir" -> <<"i", "r">>
           [] val = "Multi" -> <<"m", "u", "l", "t", "i">>
           [] val = "Rgb" -> <<"r", "g", "b">>
           [] val = "Max" -> <<"m", "a", "x">>)

\* impl From<LedFunction> and From<&LedFunction> for &str and for String: the four
\* conversions, each with its own table.  `target` names the impl.
LedFunction_into(target, val) ==
    CASE target = "&str from &" ->
        (CASE val = "CapsLock" -> <<"c", "a", "p", "s", "l", "o", "c", "k">>
           [] val = "ScrollLock" -> <<"s", "c", "r", "o", "l", "l", "l", "o", "c", "k">>
           [] val = "NumLock" -> <<"n", "u", "m", "l", "o", "c", "k">>
           [] val = "KbdBacklight" -> <<"k", "b", "d", "_", "b", "a", "c", "k", "l", "i", "g", "h", "t">>
           [] val = "Power" -> <<"p", "o", "w", "e", "r">>
           [] val = "Disk" -> <<"d", "i", "s", "k">>
           [] val = "Charging" -> <<"c", "h", "a", "r", "g", "i", "n", "g">>
           [] val = "Status" -> <<"s", "t", "a", "t", "u", "s">>
           [] val = "MicMute" -> <<"m", "i", "c", "m", "u", "t", "e">>
           [] val = "Mute" -> <<"m", "u", "t", "e">>
           [] val = "Player1" -> <<"p", "l", "a", "y", "e", "r", "-", "1">>
           [] val = "Player2" -> <<"p", "l", "a", "y", "e", "r", "-", "2">>
           [] val = "Player3" -> <<"p", "l", "a", "y", "e", "r", "-", "3">>
           [] val = "Player4" -> <<"p", "l", "a", "y", "e", "r", "-", "4">>
           [] val = "Player5" -> <<"p", "l", "a", "y", "e", "r", "-", "5">>
           [] val = "Activity" -> <<"a", "c", "t", "i", "v", "i", "t", "y">>
           [] val = "Alarm" -> <<"a", "l", "a", "r", "m">>
           [] val = "Backlight" -> <<"b", "a", "c", "k", "l", "i", "g", "h", "t">>
           [] val = "Bluetooth" -> <<"b", "l", "u", "e", "t", "o", "o", "t", "h">>
           [] val = "Boot" -> <<"b", "o", "o", "t">>
           [] val = "Cpu" -> <<"c", "p", "u">>
           [] val = "Debug" -> <<"d", "e", "b", "u", "g">>
           [] val = "DiskActivity" -> <<"d", "i", "s", "k", "-", "a", "c", "t", "i", "v", "i", "t", "y">>
           [] val = "DiskErr" -> <<"d", "i", "s", "k", "-", "e", "r", "r">>
           [] val = "DiskRead" -> <<"d", "i", "s", "k", "-", "r", "e", "a", "d">>
           [] val = "DiskWrite" -> <<"d", "i", "s", "k", "-", "w", "r", "i", "t", "e">>
           [] val = "Fault" -> <<"f", "a", "u", "l", "t">>
           [] val = "Flash" -> <<"f", "l", "a", "s", "h">>
           [] val = "Heartbeat" -> <<"h", "e", "a", "r", "t", "b", "e", "a", "t">>
           [] val = "Indicator" -> <<"i", "n", "d", "i", "c", "a", "t", "o", "r">>
           [] val = "Lan" -> <<"l", "a", "n">>
           [] val = "Mail" -> <<"m", "a", "i", "l">>
           [] val = "Mtd" -> <<"m", "t", "d">>
           [] val = "Panic" -> <<"p", "a", "n", "i", "c">>
           [] val = "Programming" -> <<"p", "r", "o", "g", "r", "a", "m", "m", "i", "n", "g">>
           [] val = "Rx" -> <<"r", "x">>
           [] val = "Sd" -> <<"s", "d">>
           [] val = "Standby" -> <<"s", "t", "a", "n", "d", "b", "y">>
           [] val = "Torch" -> <<"t", "o", "r", "c", "h">>
           [] val = "Tx" -> <<"t", "x">>
           [] val = "Usb" -> <<"u", "s", "b">>
           [] val = "Wan" -> <<"w", "a", "n">>
           [] val = "Wlan" -> <<"w", "l", "a", "n">>
           [] val = "Wps" -> <<"w", "p", "s">>)
      [] target = "&str" ->
        (CASE val = "CapsLock" -> <<"c", "a", "p", "s", "l", "o", "c", "k">>
           [] val = "ScrollLock" -> <<"s", "c", "r", "o", "l", "l", "l", "o", "c", "k">>
           [] val = "NumLock" -> <<"n", "u", "m", "l", "o", "c", "k">>
           [] val = "KbdBacklight" -> <<"k", "b", "d", "_", "b", "a", "c", "k", "l", "i", "g", "h", "t">>
           [] val = "Power" -> <<"p", "o", "w", "e", "r">>
           [] val = "Disk" -> <<"d", "i", "s", "k">>
           [] val = "Charging" -> <<"c", "h", "a", "r", "g", "i", "n", "g">>
           [] val = "Status" -> <<"s", "t", "a", "t", "u", "s">>
           [] val = "MicMute" -> <<"m", "i", "c", "m", "u", "t", "e">>
           [] val = "Mute" -> <<"m", "u", "t", "e">>
           [] val = "Player1" -> <<"p", "l", "a", "y", "e", "r", "-", "1">>
           [] val = "Player2" -> <<"p", "l", "a", "y", "e", "r", "-", "2">>
           [] val = "Player3" -> <<"p", "l", "a", "y", "e", "r", "-", "3">>
           [] val = "Player4" -> <<"p", "l", "a", "y", "e", "r", "-", "4">>
           [] val = "Player5" -> <<"p", "l", "a", "y", "e", "r", "-", "5">>
           [] val = "Activity" -> <<"a", "c", "t", "i", "v", "i", "t", "y">>
           [] val = "Alarm" -> <<"a", "l", "a", "r", "m">>
           [] val = "Backlight" -> <<"b", "a", "c", "k", "l", "i", "g", "h", "t">>
           [] val = "Bluetooth" -> <<"b", "l", "u", "e", "t", "o", "o", "t", "h">>
           [] val = "Boot" -> <<"b", "o", "o", "t">>
           [] val = "Cpu" -> <<"c", "p", "u">>
           [] val = "Debug" -> <<"d", "e", "b", "u", "g">>
           [] val = "DiskActivity" -> <<"d", "i", "s", "k", "-", "a", "c", "t", "i", "v", "i", "t", "y">>
           [] val = "DiskErr" -> <<"d", "i", "s", "k", "-", "e", "r", "r">>
           [] val = "DiskRead" -> <<"d", "i", "s", "k", "-", "r", "e", "a", "d">>
           [] val = "DiskWrite" -> <<"d", "i", "s", "k", "-", "w", "r", "i", "t", "e">>
           [] val = "Fault" -> <<"f", "a", "u", "l", "t">>
           [] val = "Flash" -> <<"f", "l", "a", "s", "h">>
           [] val = "Heartbeat" -> <<"h", "e", "a", "r", "t", "b", "e", "a", "t">>
           [] val = "Indicator" -> <<"i", "n", "d", "i", "c", "a", "t", "o", "r">>
           [] val = "Lan" -> <<"l", "a", "n">>
           [] val = "Mail" -> <<"m", "a", "i", "l">>
           [] val = "Mtd" -> <<"m", "t", "d">>
           [] val = "Panic" -> <<"p", "a", "n", "i", "c">>
           [] val = "Programming" -> <<"p", "r", "o", "g", "r", "a", "m", "m", "i", "n", "g">>
           [] val = "Rx" -> <<"r", "x">>
           [] val = "Sd" -> <<"s", "d">>
           [] val = "Standby" -> <<"s", "t", "a", "n", "d", "b", "y">>
           [] val = "Torch" -> <<"t", "o", "r", "c", "h">>
           [] val = "Tx" -> <<"t", "x">>
           [] val = "Usb" -> <<"u", "s", "b">>
           [] val = "Wan" -> <<"w", "a", "n">>
           [] val = "Wlan" -> <<"w", "l", "a", "n">>
           [] val = "Wps" -> <<"w", "p", "s">>)
      [] target = "String from &" ->
        (CASE val = "CapsLock" -> <<"c", "a", "p", "s", "l", "o", "c", "k">>
           [] val = "ScrollLock" -> <<"s", "c", "r", "o", "l", "l", "l", "o", "c", "k">>
           [] val = "NumLock" -> <<"n", "u", "m", "l", "o", "c", "k">>
           [] val = "KbdBacklight" -> <<"k", "b", "d", "_", "b", "a", "c", "k", "l", "i", "g", "h", "t">>
           [] val = "Power" -> <<"p", "o", "w", "e", "r">>
           [] val = "Disk" -> <<"d", "i", "s", "k">>
           [] val = "Charging" -> <<"c", "h", "a", "r", "g", "i", "n", "g">>
           [] val = "Status" -> <<"s", "t", "a", "t", "u", "s">>
           [] val = "MicMute" -> <<"m", "i", "c", "m", "u", "t", "e">>
           [] val = "Mute" -> <<"m", "u", "t", "e">>
           [] val = "Player1" -> <<"p", "l", "a", "y", "e", "r", "-", "1">>
           [] val = "Player2" -> <<"p", "l", "a", "y", "e", "r", "-", "2">>
           [] val = "Player3" -> <<"p", "l", "a", "y", "e", "r", "-", "3">>
           [] val = "Player4" -> <<"p", "l", "a", "y", "e", "r", "-", "4">>
           [] val = "Player5" -> <<"p", "l", "a", "y", "e", "r", "-", "5">>
           [] val = "Activity" -> <<"a", "c", "t", "i", "v", "i", "t", "y">>
           [] val = "Alarm" -> <<"a", "l", "a", "r", "m">>
           [] val = "Backlight" -> <<"b", "a", "c", "k", "l", "i", "g", "h", "t">>
           [] val = "Bluetooth" -> <<"b", "l", "u", "e", "t", "o", "o", "t", "h">>
           [] val = "Boot" -> <<"b", "o", "o", "t">>
           [] val = "Cpu" -> <<"c", "p", "u">>
           [] val = "Debug" -> <<"d", "e", "b", "u", "g">>
           [] val = "DiskActivity" -> <<"d", "i", "s", "k", "-", "a", "c", "t", "i", "v", "i", "t", "y">>
           [] val = "DiskErr" -> <<"d", "i", "s", "k", "-", "e", "r", "r">>
           [] val = "DiskRead" -> <<"d", "i", "s", "k", "-", "r", "e", "a", "d">>
           [] val = "DiskWrite" -> <<"d", "i", "s", "k", "-", "w", "r", "i", "t", "e">>
           [] val = "Fault" -> <<"f", "a", "u", "l", "t">>
           [] val = "Flash" -> <<"f", "l", "a", "s", "h">>
           [] val = "Heartbeat" -> <<"h", "e", "a", "r", "t", "b", "e", "a", "t">>
           [] val = "Indicator" -> <<"i", "n", "d", "i", "c", "a", "t", "o", "r">>
           [] val = "Lan" -> <<"l", "a", "n">>
           [] val = "Mail" -> <<"m", "a", "i", "l">>
           [] val = "Mtd" -> <<"m", "t", "d">>
           [] val = "Panic" -> <<"p", "a", "n", "i", "c">>
           [] val = "Programming" -> <<"p", "r", "o", "g", "r", "a", "m", "m", "i", "n", "g">>
           [] val = "Rx" -> <<"r", "x">>
           [] val = "Sd" -> <<"s", "d">>
           [] val = "Standby" -> <<"s", "t", "a", "n", "d", "b", "y">>
           [] val = "Torch" -> <<"t", "o", "r", "c", "h">>
           [] val = "Tx" -> <<"t", "x">>
           [] val = "Usb" -> <<"u", "s", "b">>
           [] val = "Wan" -> <<"w", "a", "n">>
           [] val = "Wlan" -> <<"w", "l", "a", "n">>
           [] val = "Wps" -> <<"w", "p", "s">>)
      [] target = "String" ->
        (CASE val = "CapsLock" -> <<"c", "a", "p", "s", "l", "o", "c", "k">>
           [] val = "ScrollLock" -> <<"s", "c", "r", "o", "l", "l", "l", "o", "c", "k">>
           [] val = "NumLock" -> <<"n", "u", "m", "l", "o", "c", "k">>
           [] val = "KbdBacklight" -> <<"k", "b", "d", "_", "b", "a", "c", "k", "l", "i", "g", "h", "t">>
           [] val = "Power" -> <<"p", "o", "w", "e", "r">>
           [] val = "Disk" -> <<"d", "i", "s", "k">>
           [] val = "Charging" -> <<"c", "h", "a", "r", "g", "i", "n", "g">>
           [] val = "Status" -> <<"s", "t", "a", "t", "u", "s">>
           [] val = "MicMute" -> <<"m", "i", "c", "m", "u", "t", "e">>
           [] val = "Mute" -> <<"m", "u", "t", "e">>
           [] val = "Player1" -> <<"p", "l", "a", "y", "e", "r", "-", "1">>
           [] val = "Player2" -> <<"p", "l", "a", "y", "e", "r", "-", "2">>
           [] val = "Player3" -> <<"p", "l", "a", "y", "e", "r", "-", "3">>
           [] val = "Player4" -> <<"p", "l", "a", "y", "e", "r", "-", "4">>
           [] val = "Player5" -> <<"p", "l", "a", "y", "e", "r", "-", "5">>
           [] val = "Activity" -> <<"a", "c", "t", "i", "v", "i", "t", "y">>
           [] val = "Alarm" -> <<"a", "l", "a", "r", "m">>
           [] val = "Backlight" -> <<"b", "a", "c", "k", "l", "i", "g", "h", "t">>
           [] val = "Bluetooth" -> <<"b", "l", "u", "e", "t", "o", "o", "t", "h">>
           [] val = "Boot" -> <<"b", "o", "o", "t">>
           [] val = "Cpu" -> <<"c", "p", "u">>
           [] val = "Debug" -> <<"d", "e", "b", "u", "g">>
           [] val = "DiskActivity" -> <<"d", "i", "s", "k", "-", "a", "c", "t", "i", "v", "i", "t", "y">>
           [] val = "DiskErr" -> <<"d", "i", "s", "k", "-", "e", "r", "r">>
           [] val = "DiskRead" -> <<"d", "i", "s", "k", "-", "r", "e", "a", "d">>
           [] val = "DiskWrite" -> <<"d", "i", "s", "k", "-", "w", "r", "i", "t", "e">>
           [] val = "Fault" -> <<"f", "a", "u", "l", "t">>
           [] val = "Flash" -> <<"f", "l", "a", "s", "h">>
           [] val = "Heartbeat" -> <<"h", "e", "a", "r", "t", "b", "e", "a", "t">>
           [] val = "Indicator" -> <<"i", "n", "d", "i", "c", "a", "t", "o", "r">>
           [] val = "Lan" -> <<"l", "a", "n">>
           [] val = "Mail" -> <<"m", "a", "i", "l">>
           [] val = "Mtd" -> <<"m", "t", "d">>
           [] val = "Panic" -> <<"p", "a", "n", "i", "c">>
           [] val = "Programming" -> <<"p", "r", "o", "g", "r", "a", "m", "m", "i", "n", "g">>
           [] val = "Rx" -> <<"r", "x">>
           [] val = "Sd" -> <<"s", "d">>
           [] val = "Standby" -> <<"s", "t", "a", "n", "d", "b", "y">>
           [] val = "Torch" -> <<"t", "o", "r", "c", "h">>
           [] val = "Tx" -> <<"t", "x">>
           [] val = "Usb" -> <<"u", "s", "b">>
           [] val = "Wan" -> <<"w", "a", "n">>
           [] val = "Wlan" -> <<"w", "l", "a", "n">>
           [] val = "Wps" -> <<"w", "p", "s">>)

\* The impls of From for &str and String, by their target.
IntoTargets == {"&str", "&str from &", "String", "String from &"}

---------------------------------------------------------------------------
\* LedInfo::from_string (src/misc/linux.rs).

\* let mut led_info = s.split(':').collect(); led_info.retain(non-empty)
Segments(s) == RetainNonEmpty(Split(s))

\* The three-segment branch with color and function taken from each
\* other's position.
FromStringPositional_swapped(s) ==
    LET led_info == Segments(s)
    IN [device |-> s,
        device_name |-> Some(led_info[1]),
        color |-> LedColor_from_id(led_info[3]),
        function |-> LedFunction_from_id(led_info[2])]

\* The three-segment branch keeping no device name that is itself a token.
FromStringPositional_untokened(s) ==
    LET led_info == Segments(s)
    IN [device |-> s,
        device_name |-> IF \/ IsSome(LedColor_from_id(led_info[1]))
                           \/ IsSome(LedFunction_from_id(led_info[1]))
                        THEN None ELSE Some(led_info[1]),
        color |-> LedColor_from_id(led_info[2]),
        function |-> LedFunction_from_id(led_info[3])]

\* The three-segment branch: the segments by position.
FromStringPositional(s) ==
    LET led_info == Segments(s)
    IN [device |-> s,
        device_name |-> Some(led_info[1]),
        color |-> LedColor_from_id(led_info[2]),
        function |-> LedFunction_from_id(led_info[3])]

\* The locals of the else branch before its loop.
FallbackStart(s) ==
    [led_info |-> Segments(s), idx |-> 0, device_name |-> None,
     color |-> None, function |-> None, panicked |-> FALSE]

\* The loop leaving the last segment unvisited.
LoopCond_early(st) == st.idx < Len(st.led_info) - 1 /\ st.led_info # << >>

\* while idx <= led_info.len() && !led_info.is_empty()
LoopCond(st) == st.idx <= Len(st.led_info) /\ st.led_info # << >>

\* The loop body stepping over a device name instead of removing it.
LoopBody_advancing(st) ==
    IF st.idx >= Len(st.led_info) THEN [st EXCEPT !.panicked = TRUE]
    ELSE LET seg == st.led_info[st.idx + 1]
         IN IF IsSome(LedColor_from_id(seg))
            THEN [st EXCEPT !.color = LedColor_from_id(seg),
                            !.led_info = RemoveAt(st.led_info, st.idx)]
            ELSE IF IsSome(LedFunction_from_id(seg))
            THEN [st EXCEPT !.function = LedFunction_from_id(seg),
                            !.led_info = RemoveAt(st.led_info, st.idx)]
            ELSE [st EXCEPT !.device_name = Some(seg), !.idx = st.idx + 1]

\* One pass through the loop body.  led_info[idx] panics when idx is not
\* below the length.
LoopBody(st) ==
    IF st.idx >= Len(st.led_info) THEN [st EXCEPT !.panicked = TRUE]
    ELSE LET seg == st.led_info[st.idx + 1]
         IN IF IsSome(LedColor_from_id(seg))
            THEN [st EXCEPT !.color = LedColor_from_id(seg),
                            !.led_info = RemoveAt(st.led_info, st.idx)]
            ELSE IF IsSome(LedFunction_from_id(seg))
            THEN [st EXCEPT !.function = LedFunction_from_id(seg),
                            !.led_info = RemoveAt(st.led_info, st.idx)]
            ELSE IF st.led_info # << >>
            THEN [st EXCEPT !.device_name = Some(seg),
                            !.led_info = RemoveAt(st.led_info, st.idx)]
            ELSE [st EXCEPT !.idx = st.idx + 1]

RECURSIVE RunLoop(_)
RunLoop(st) ==
    IF st.panicked \/ ~LoopCond(st) THEN st ELSE RunLoop(LoopBody(st))

\* The LedInfo built without the device name the loop found.
FallbackInfo_unnamed(s, st) ==
    [device |-> s, device_name |-> None,
     color |-> st.color, function |-> st.function]

\* The LedInfo built after the loop.
FallbackInfo(s, st) ==
    [device |-> s, device_name |-> st.device_name,
     color |-> st.color, function |-> st.function]

\* The whole function: Ok(LedInfo), or the panic of an index out of range.
LedInfo_from_string(s) ==
    IF Len(Segments(s)) = 3 THEN Ok(FromStringPositional(s))
    ELSE LET st == RunLoop(FallbackStart(s))
         IN IF st.panicked THEN Panicked("index out of bounds")
            ELSE Ok(FallbackInfo(s, st))

---------------------------------------------------------------------------
\* Names handed to LedInfo::from_string.

SegPool ==
    { << >>,
      <<"i", "n", "p", "u", "t", "1", "3">>,
      <<"c", "o", "m", "p", "o", "s", "e">>,
      <<"r", "e", "d">>,
      <<"p", "o", "w", "e", "r">>,
      <<"k", "b", "d", "_", "b", "a", "c", "k", "l", "i", "g", "h", "t">> }

\* Every sequence of 1..MaxSegments segments of the pool, joined by ':'.
RECURSIVE SegLists(_)
SegLists(n) ==
    IF n = 0 THEN { << >> }
    ELSE LET shorter == SegLists(n - 1)
         IN shorter \cup
            { Append(l, x) : l \in { m \in shorter : Len(m) = n - 1 },
                             x \in SegPool }

PooledNames == { JoinColon(l) : l \in SegLists(MaxSegments) \ { << >> } }

\* First segments of the canonical three-part names.
DeviceSegs ==
    { <<"a", "s", "u", "s">>, <<"i", "n", "p", "u", "t", "2">>,
      <<"r", "e", "d">>, <<"p", "o", "w", "e", "r">> }

\* "A:c:f" for every colour token c and every function token f.
CanonicalNames ==
    { JoinColon(<<a, LedColor_to_string(c), LedFunction_to_string(f)>>) :
        a \in DeviceSegs, c \in LedColor, f \in LedFunction }

\* The device names of tests::led_info.
TestNames ==
    { <<"a", "s", "u", "s", ":", ":", "k", "b", "d", "_", "b", "a", "c",
        "k", "l", "i", "g", "h", "t">>,
      <<"i", "n", "p", "u", "t", "1", "3", ":", ":", "c", "a", "p", "s",
        "l", "o", "c", "k">>,
      <<"i", "n", "p", "u", "t", "1", "3", ":", ":", "c", "o", "m", "p",
        "o", "s", "e">>,
      <<"i", "n", "p", "u", "t", "1", "3", ":", ":", "k", "a", "n", "a">>,
      <<"i", "n", "p", "u", "t", "1", "3", ":", ":", "n", "u", "m", "l",
        "o", "c", "k">>,
      <<"i", "n", "p", "u", "t", "1", "3", ":", ":", "s", "c", "r", "o",
        "l", "l", "l", "o", "c", "k">>,
      <<"i", "n", "p", "u", "t", "2", ":", ":", "c", "a", "p", "s", "l",
        "o", "c", "k">>,
      <<"i", "n", "p", "u", "t", "2", ":", ":", "n", "u", "m", "l", "o",
        "c", "k">>,
      <<"i", "n", "p", "u", "t", "2", ":", ":", "s", "c", "r", "o", "l",
        "l", "l", "o", "c", "k">>,
      <<"p", "h", "y", "0", "-", "l", "e", "d">> }

\* A name without a colon that holds a colour token, and names whose colour
\* is not in lower case.
PlainNames ==
    { <<"r", "e", "d", "-", "l", "e", "d">>,
      <<"R", "e", "d">>,
      <<"a", "s", "u", "s", ":", "R", "e", "d", ":", "p", "o", "w", "e", "r">> }

\* "A::f" for every function token f: the colour segment is empty.
EmptyColorNames ==
    { JoinColon(<<a, << >>, LedFunction_to_string(f)>>) :
        a \in { <<"a", "s", "u", "s">>, <<"i", "n", "p", "u", "t", "1", "3">> },
        f \in LedFunction }

InputNames ==
    PooledNames \cup CanonicalNames \cup TestNames \cup PlainNames
        \cup EmptyColorNames

ParseIdle == [pc |-> "idle"]

\* from_string(s) with exactly three non-empty segments: it returns at once.
FromStringThree(s) ==
    /\ parse.pc = "idle"
    /\ Len(Segments(s)) = 3
    /\ parse' = [pc |-> "done", s |-> s, iters |-> 0,
                 info |-> FromStringPositional(s)]
    /\ UNCHANGED <<fs, bus, backend, last, before, changes, callers, scan>>

\* from_string(s) otherwise: the else branch is entered.
FromStringFallback(s) ==
    /\ parse.pc = "idle"
    /\ Len(Segments(s)) # 3
    /\ parse' = [pc |-> "loop", s |-> s, iters |-> 0, st |-> FallbackStart(s)]
    /\ UNCHANGED <<fs, bus, backend, last, before, changes, callers, scan>>

\* One iteration of the while loop.
FromStringLoop ==
    /\ parse.pc = "loop"
    /\ LoopCond(parse.st)
    /\ LET st2 == LoopBody(parse.st)
       IN parse' = [parse EXCEPT !.st = st2, !.iters = parse.iters + 1,
                                 !.pc = IF st2.panicked THEN "panic"
                                        ELSE "loop"]
    /\ UNCHANGED <<fs, bus, backend, last, before, changes, callers, scan>>

\* The loop condition fails: the LedInfo is built and returned.
FromStringReturn ==
    /\ parse.pc = "loop"
    /\ ~LoopCond(parse.st)
    /\ parse' = [pc |-> "done", s |-> parse.s, iters |-> parse.iters,
                 info |-> FallbackInfo(parse.s, parse.st)]
    /\ UNCHANGED <<fs, bus, backend, last, before, changes, callers, scan>>

ParseNext ==
    \/ \E s \in InputNames : FromStringThree(s)
    \/ \E s \in InputNames : FromStringFallback(s)
    \/ FromStringLoop
    \/ FromStringReturn

---------------------------------------------------------------------------
\* The class directories.

\* BACKLIGHT_DIR = "/sys/class/backlight", LEDS_DIR = "/sys/class/leds"
BACKLIGHT_DIR == "backlight"
LEDS_DIR == "leds"
Family == {BACKLIGHT_DIR, LEDS_DIR}

\* impl Display for Error, the same in both builds: the format string of
\* the variant and the values put into its {} in order.  ParseIntError,
\* io::Error and zbus::Error display as the kind the model keeps of them.
Error_fmt(e) ==
    CASE e.kind = "SetBrightnessDBusError" ->
            [fmt |-> "address error: {}", args |-> << e.why >>]
      [] e.kind = "InvalidBrightnessLevel" ->
            [fmt |-> "Invalid Brightness Level: expected number between 0 and {} but received {}.",
             args |-> << e.max, e.given >>]
      [] e.kind = "Io" -> [fmt |-> "I/O error: {}", args |-> << e.io >>]
      [] e.kind = "ParseBrightnessError" ->
            [fmt |-> "Unexpected Brightness {}", args |-> << e.why >>]
      [] e.kind = "InvalidDeviceName" ->
            [fmt |-> "Invalid Device Name: {}/{}/ doest not exist.",
             args |-> << BACKLIGHT_DIR, e.device >>]

\* enum SysBacklightInterface and the file each variant selects.
SysBacklightInterface ==
    {"Power", "Brightness", "ActualBrightness", "MaxBrightness", "Type"}

InterfaceFile(info) ==
    CASE info = "Power" -> "bl_power"
      [] info = "Brightness" -> "brightness"
      [] info = "ActualBrightness" -> "actual_brightness"
      [] info = "MaxBrightness" -> "max_brightness"
      [] info = "Type" -> "type"

AttrFiles == { InterfaceFile(i) : i \in SysBacklightInterface }

\* Path::new(dir).is_dir() for a class root.  A root that exists but cannot
\* be listed ("unlistable": no read permission) is still a directory.
RootIsDir(f, dir) == f[dir].root # "absent"

\* The entries <dir>/<device> names.  Only entries with a UTF-8 name can be
\* named by a String.
EntriesNamed(f, dir, device) ==
    { i \in 1..Len(f[dir].entries) :
        /\ f[dir].entries[i].kind \in {"dir", "file"}
        /\ f[dir].entries[i].name = device }

\* Path::new(format!("{}/{}", dir, device)).is_dir().  The empty device names
\* "<dir>/", the root itself.
PathIsDir(f, dir, device) ==
    /\ RootIsDir(f, dir)
    /\ \/ device = << >>
       \/ \E i \in EntriesNamed(f, dir, device) : f[dir].entries[i].kind = "dir"

\* fs::read_dir(dir): the entries in listing order, or the io error.
ReadDir(f, dir) ==
    IF f[dir].root = "dir" THEN Ok(f[dir].entries)
    ELSE IF f[dir].root = "unlistable" THEN Err(Io("PermissionDenied"))
    ELSE Err(Io("NotFound"))

\* fs::read_to_string(<dir>/<device>/<file>): the content, or the io error.
\* PathBuf::push("") adds nothing, so an empty device reads <dir>/<file>,
\* which no class directory holds.
ReadToString(f, dir, device, file) ==
    IF ~RootIsDir(f, dir) \/ device = << >> \/ EntriesNamed(f, dir, device) = {}
    THEN Err(Io("NotFound"))
    ELSE LET e == f[dir].entries[CHOOSE i \in EntriesNamed(f, dir, device) : TRUE]
         IN IF e.kind # "dir" THEN Err(Io("NotADirectory"))
            ELSE IF e.attrs[file] = None THEN Err(Io("NotFound"))
            ELSE Ok(Unwrap(e.attrs[file]))

\* The content handed on as read, the final newline included.
read_sys_backlight_untrimmed(f, device, info) ==
    ReadToString(f, BACKLIGHT_DIR, device, InterfaceFile(info))

\* utils::read_sys_backlight: the trimmed content of the attribute file.
read_sys_backlight(f, device, info) ==
    LET r == ReadToString(f, BACKLIGHT_DIR, device, InterfaceFile(info))
    IN IF IsOk(r) THEN Ok(Trim(r.val)) ELSE r

\* The read answering with the brightness file for every attribute.
read_sys_led_brightness(f, device, info) ==
    LET r == ReadToString(f, LEDS_DIR, device, "brightness")
    IN IF IsOk(r) THEN Ok(Trim(r.val)) ELSE r

\* utils::read_sys_led: the same under the LED root.
read_sys_led(f, device, info) ==
    LET r == ReadToString(f, LEDS_DIR, device, InterfaceFile(info))
    IN IF IsOk(r) THEN Ok(Trim(r.val)) ELSE r

\* `read(..)?.parse::<u32>()?` with From<ParseIntError> for Error.
ParsedU32(r) ==
    IF ~IsOk(r) THEN r
    ELSE LET p == ParseU32(r.val)
         IN IF p.ok THEN Ok(p.val) ELSE Err(ParseBrightnessError(p.why))

\* The file a read or a write addresses.
FileOf(dir, device, file) == [dir |-> dir, device |-> device, file |-> file]

ReadsOf(dir, device, infos) ==
    [k \in 1..Len(infos) |-> FileOf(dir, device, InterfaceFile(infos[k]))]

---------------------------------------------------------------------------
\* MonitorDevice (src/monitor/linux.rs).  Every operation yields its result
\* and the attribute files it read, in the order it read them.

MonitorAttrs ==
    <<"Power", "Brightness", "ActualBrightness", "MaxBrightness", "Type">>

\* The match on the trimmed content of `type`.
BackLightTypeOf(s) ==
    CASE s = <<"f", "i", "r", "m", "w", "a", "r", "e">> -> Some("FirmWare")
      [] s = <<"p", "l", "a", "t", "f", "o", "r", "m">> -> Some("PlatForm")
      [] s = <<"r", "a", "w">> -> Some("Raw")
      [] OTHER -> None

MonitorReads(device, n) == ReadsOf(BACKLIGHT_DIR, device, SubSeq(MonitorAttrs, 1, n))

\* The probe looking at the class root instead of the device directory.
MonitorDirExists_root(f, device) == RootIsDir(f, BACKLIGHT_DIR)

\* Path::new(format!("{}/{}", BACKLIGHT_DIR, &device).as_str()).is_dir()
MonitorDirExists(f, device) == PathIsDir(f, BACKLIGHT_DIR, device)

\* The struct literal with brightness and actual_brightness exchanged.
MonitorDeviceOf_swapped(device, bl_power, brightness, actual_brightness, max_brightness, bl_type) ==
    [device |-> device,
     bl_power |-> bl_power,
     brightness |-> actual_brightness,
     actual_brightness |-> brightness,
     max_brightness |-> max_brightness,
     bl_type |-> bl_type]

\* The struct literal MonitorDevice { device, bl_power, .. }: each local goes
\* to the field of its name.
MonitorDeviceOf(device, bl_power, brightness, actual_brightness, max_brightness, bl_type) ==
    [device |-> device,
     bl_power |-> bl_power,
     brightness |-> brightness,
     actual_brightness |-> actual_brightness,
     max_brightness |-> max_brightness,
     bl_type |-> bl_type]

get_monitor_device(f, device) ==
    LET bl_power == ParsedU32(read_sys_backlight(f, device, "Power"))
        brightness == ParsedU32(read_sys_backlight(f, device, "Brightness"))
        actual_brightness ==
            ParsedU32(read_sys_backlight(f, device, "ActualBrightness"))
        max_brightness ==
            ParsedU32(read_sys_backlight(f, device, "MaxBrightness"))
        type == read_sys_backlight(f, device, "Type")
    IN IF ~MonitorDirExists(f, device)
       THEN [res |-> Err(InvalidDeviceName(device)), reads |-> << >>]
       ELSE IF ~IsOk(bl_power)
       THEN [res |-> bl_power, reads |-> MonitorReads(device, 1)]
       ELSE IF ~IsOk(brightness)
       THEN [res |-> brightness, reads |-> MonitorReads(device, 2)]
       ELSE IF ~IsOk(actual_brightness)
       THEN [res |-> actual_brightness, reads |-> MonitorReads(device, 3)]
       ELSE IF ~IsOk(max_brightness)
       THEN [res |-> max_brightness, reads |-> MonitorReads(device, 4)]
       ELSE IF ~IsOk(type)
       THEN [res |-> type, reads |-> MonitorReads(device, 5)]
       ELSE IF BackLightTypeOf(type.val) = None
       THEN [res |-> Panicked("unreachable"), reads |-> MonitorReads(device, 5)]
       ELSE [res |-> Ok(MonitorDeviceOf(device, bl_power.val, brightness.val,
                                        actual_brightness.val,
                                        max_brightness.val,
                                        Unwrap(BackLightTypeOf(type.val)))),
             reads |-> MonitorReads(device, 5)]

\* MonitorDevice::get_device_name.
MonitorDevice_get_device_name(self) == self.device

\* if Path::new(BACKLIGHT_DIR).is_dir()
BacklightDirExists(f) == RootIsDir(f, BACKLIGHT_DIR)

\* The for loop of get_all_monitor_devices over the listing: `device?` on an
\* entry read_dir failed on, unwrap() of a name that is not UTF-8, then
\* get_monitor_device, whose first error ends the loop.
RECURSIVE MonitorsFrom(_, _, _, _)
MonitorsFrom(f, listing, monitors, reads) ==
    IF listing = << >> THEN [res |-> Ok(monitors), reads |-> reads]
    ELSE LET e == Head(listing)
             got == get_monitor_device(f, e.name)
         IN IF e.kind = "ioerr"
            THEN [res |-> Err(Io("Other")), reads |-> reads]
            ELSE IF e.kind = "nonutf8"
            THEN [res |-> Panicked("unwrap"), reads |-> reads]
            ELSE IF IsOk(got.res)
            THEN MonitorsFrom(f, Tail(listing), Append(monitors, got.res.val),
                              reads \o got.reads)
            ELSE [res |-> got.res, reads |-> reads \o got.reads]

get_all_monitor_devices(f) ==
    LET listing == ReadDir(f, BACKLIGHT_DIR)
    IN IF ~BacklightDirExists(f)
       THEN [res |-> Ok(<< >>), reads |-> << >>]
       ELSE IF ~IsOk(listing) THEN [res |-> listing, reads |-> << >>]
       ELSE MonitorsFrom(f, listing.val, << >>, << >>)

---------------------------------------------------------------------------
\* LedFilterable and LedDevice (src/misc/linux.rs).

\* LedFilterable::new(): no field set.
LedFilterable_new == [device_name |-> << >>, color |-> << >>, function |-> << >>]

\* self.device_name = Some(device_name); self
LedFilterable_with_device_name(self, device_name) ==
    [self EXCEPT !.device_name = << device_name >>]

\* The setter starting again from an empty filter.
LedFilterable_with_color_reset(self, color) ==
    [LedFilterable_new EXCEPT !.color = << color >>]

\* self.color = Some(color); self
LedFilterable_with_color(self, color) == [self EXCEPT !.color = << color >>]

\* self.function = Some(function); self
LedFilterable_with_function(self, function) ==
    [self EXCEPT !.function = << function >>]

\* *(self): the copy of the filter built so far.
LedFilterable_finish(self) == self

filter_by_device_name(flt, to_be_filtered) ==
    IF IsSome(flt.device_name)
    THEN Contains(to_be_filtered, Unwrap(flt.device_name))
    ELSE FALSE

filter_by_color(flt, to_be_filtered) ==
    IF IsSome(flt.color)
    THEN Contains(to_be_filtered, LedColor_to_string(Unwrap(flt.color)))
    ELSE FALSE

\* The test on the function LedInfo::from_string finds in the name.
filter_by_function_parsed(flt, pre_filter) ==
    IF IsSome(flt.function)
    THEN LedInfo_from_string(pre_filter).val.function = flt.function
    ELSE FALSE

filter_by_function(flt, pre_filter) ==
    IF IsSome(flt.function)
    THEN Contains(pre_filter, LedFunction_to_string(Unwrap(flt.function)))
    ELSE FALSE

\* The filter asking every populated field to match.
filter_all(flt, to_be_filtered) ==
    /\ IsSome(flt.device_name) => filter_by_device_name(flt, to_be_filtered)
    /\ IsSome(flt.color) => filter_by_color(flt, to_be_filtered)
    /\ IsSome(flt.function) => filter_by_function(flt, to_be_filtered)
    /\ flt # [device_name |-> None, color |-> None, function |-> None]

\* LedFilterable::filter
filter(flt, to_be_filtered) ==
    \/ filter_by_device_name(flt, to_be_filtered)
    \/ filter_by_color(flt, to_be_filtered)
    \/ filter_by_function(flt, to_be_filtered)

\* multi_filter_led: the loop leaves status true once any filter matched.
RECURSIVE multi_filter_led(_, _)
multi_filter_led(filters, to_be_filtered) ==
    IF filters = << >> THEN FALSE
    ELSE LET status == multi_filter_led(SubSeq(filters, 1, Len(filters) - 1),
                                        to_be_filtered)
         IN IF filter(filters[Len(filters)], to_be_filtered) THEN TRUE
            ELSE status

LedAttrs == <<"Brightness", "MaxBrightness">>

LedReads(device, n) == ReadsOf(LEDS_DIR, device, SubSeq(LedAttrs, 1, n))

\* The probe that also wants a type file in the directory.
LedDirExists_typed(f, device) ==
    /\ PathIsDir(f, LEDS_DIR, device)
    /\ IsOk(ReadToString(f, LEDS_DIR, device, "type"))

\* Path::new(format!("{}/{}", LEDS_DIR, &device).as_str()).is_dir()
LedDirExists(f, device) == PathIsDir(f, LEDS_DIR, device)

get_led_device(f, device) ==
    LET brightness == ParsedU32(read_sys_led(f, device, "Brightness"))
        max_brightness == ParsedU32(read_sys_led(f, device, "MaxBrightness"))
        info == LedInfo_from_string(device)
    IN IF ~LedDirExists(f, device)
       THEN [res |-> Err(InvalidDeviceName(device)), reads |-> << >>]
       ELSE IF ~IsOk(brightness)
       THEN [res |-> brightness, reads |-> LedReads(device, 1)]
       ELSE IF ~IsOk(max_brightness)
       THEN [res |-> max_brightness, reads |-> LedReads(device, 2)]
       ELSE IF ~IsOk(info)
       THEN [res |-> info, reads |-> LedReads(device, 2)]
       ELSE [res |-> Ok([info |-> info.val,
                         brightness |-> brightness.val,
                         max_brightness |-> max_brightness.val]),
             reads |-> LedReads(device, 2)]

\* The getter answering with the parsed device_name, "" when there is none.
LedDevice_get_device_name_short(self) ==
    IF self.info.device_name = None THEN << >> ELSE self.info.device_name[1]

\* LedDevice::get_device_name.
LedDevice_get_device_name(self) == self.info.device

\* The listing attempted whether or not the root is there.
LedsDirExists_unchecked(f) == TRUE

\* if Path::new(LEDS_DIR).is_dir()
LedsDirExists(f) == RootIsDir(f, LEDS_DIR)

\* The for loop of get_all_led_devices over the listing.
RECURSIVE LedsFrom(_, _, _, _)
LedsFrom(f, listing, leds, reads) ==
    IF listing = << >> THEN [res |-> Ok(leds), reads |-> reads]
    ELSE LET e == Head(listing)
             got == get_led_device(f, e.name)
         IN IF e.kind = "ioerr"
            THEN [res |-> Err(Io("Other")), reads |-> reads]
            ELSE IF e.kind = "nonutf8"
            THEN [res |-> Panicked("unwrap"), reads |-> reads]
            ELSE IF IsOk(got.res)
            THEN LedsFrom(f, Tail(listing), Append(leds, got.res.val),
                          reads \o got.reads)
            ELSE [res |-> got.res, reads |-> reads \o got.reads]

get_all_led_devices(f) ==
    LET listing == ReadDir(f, LEDS_DIR)
    IN IF ~LedsDirExists(f) THEN [res |-> Ok(<< >>), reads |-> << >>]
       ELSE IF ~IsOk(listing) THEN [res |-> listing, reads |-> << >>]
       ELSE LedsFrom(f, listing.val, << >>, << >>)

\* The iterator chain of the filtered listings: entries that failed to read
\* and names that are not UTF-8 are dropped, the names the filters match are
\* kept in listing order.
UTF8Names(listing) ==
    LET ok == SelectSeq(listing, LAMBDA e : e.kind \in {"dir", "file"})
    IN [k \in 1..Len(ok) |-> ok[k].name]

\* .map(LedDevice::get_led_device).collect::<Result<Vec<_>, Error>>(): the
\* names are materialized in order up to the first error.
RECURSIVE CollectLeds(_, _, _, _)
CollectLeds(f, names, leds, reads) ==
    IF names = << >> THEN [res |-> Ok(leds), reads |-> reads]
    ELSE LET got == get_led_device(f, Head(names))
         IN IF IsOk(got.res)
            THEN CollectLeds(f, Tail(names), Append(leds, got.res.val),
                             reads \o got.reads)
            ELSE [res |-> got.res, reads |-> reads \o got.reads]

\* fs::read_dir(LEDS_DIR).unwrap() panics when the root cannot be listed.
get_led_devices_with_multi_filter(f, filters) ==
    LET listing == ReadDir(f, LEDS_DIR)
    IN IF ~LedsDirExists(f) THEN [res |-> Ok(<< >>), reads |-> << >>]
       ELSE IF ~IsOk(listing)
       THEN [res |-> Panicked("unwrap"), reads |-> << >>]
       ELSE CollectLeds(f,
                SelectSeq(UTF8Names(listing.val),
                          LAMBDA e : multi_filter_led(filters, e)),
                << >>, << >>)

\* The single filter keeps e when filter_by_device_name(e) ||
\* filter_by_color(e) || filter_by_function(e).
get_led_devices_with_filter(f, flt) ==
    LET listing == ReadDir(f, LEDS_DIR)
    IN IF ~LedsDirExists(f) THEN [res |-> Ok(<< >>), reads |-> << >>]
       ELSE IF ~IsOk(listing)
       THEN [res |-> Panicked("unwrap"), reads |-> << >>]
       ELSE CollectLeds(f,
                SelectSeq(UTF8Names(listing.val), LAMBDA e :
                    \/ filter_by_device_name(flt, e)
                    \/ filter_by_color(flt, e)
                    \/ filter_by_function(flt, e)),
                << >>, << >>)

\* The shorthand asking for the caps lock LEDs.
get_all_keyboard_devices_capslock(f) ==
    get_led_devices_with_filter(f,
        [device_name |-> None, color |-> None, function |-> Some("CapsLock")])

get_all_keyboard_devices(f) ==
    get_led_devices_with_filter(f,
        [device_name |-> None, color |-> None,
         function |-> Some("KbdBacklight")])

---------------------------------------------------------------------------
\* set_brightness, in both builds.

\* The content a class attribute shows for a stored number: "%d\n".
Line(v) == U32ToString(v) \o <<"\n">>

\* OpenOptions::new().write(true).open(<dir>/<device>/<file>): no create,
\* so the file must exist, and the caller must be allowed to write it.  Of
\* the attributes read here only `brightness` is writable at all.
OpenForWrite(f, target) ==
    LET found == EntriesNamed(f, target.dir, target.device)
    IN IF ~RootIsDir(f, target.dir) \/ target.device = << >> \/ found = {}
       THEN Err(Io("NotFound"))
       ELSE LET i == CHOOSE k \in found : TRUE
                e == f[target.dir].entries[i]
            IN IF e.kind # "dir" THEN Err(Io("NotADirectory"))
               ELSE IF e.attrs[target.file] = None THEN Err(Io("NotFound"))
               ELSE IF target.file # "brightness" \/ e.wr = "ro"
               THEN Err(Io("PermissionDenied"))
               ELSE Ok(i)

\* The maximum the device of entry i has, where its file shows one.
DriverMax(f, dir, i) ==
    LET e == f[dir].entries[i]
    IN IF e.attrs["max_brightness"] = None THEN [ok |-> FALSE]
       ELSE ParseU32(Trim(Unwrap(e.attrs["max_brightness"])))

\* The driver behind <dir>/<entry i>/brightness takes the bytes of one
\* write: it refuses them (the write fails) when the attribute rejects
\* writes, when they are no number, or, for a backlight, when the number is
\* above the device's own maximum.
DriverAccepts(f, dir, i, bytes) ==
    LET max == DriverMax(f, dir, i)
        val == ParseU32(Trim(bytes))
    IN /\ f[dir].entries[i].wr # "fail"
       /\ val.ok
       /\ (dir = BACKLIGHT_DIR /\ max.ok) => U32Le(val.val, max.val)

\* The driver stores the number, which the file then shows; an LED stores
\* its maximum for a number above it.
DriverStore(f, dir, i, bytes) ==
    LET max == DriverMax(f, dir, i)
        val == ParseU32(Trim(bytes)).val
        kept == IF dir = LEDS_DIR /\ max.ok /\ U32Gt(val, max.val)
                THEN max.val ELSE val
    IN [f EXCEPT ![dir].entries[i].attrs["brightness"] = Some(Line(kept))]

\* The bound check left out.
LevelAllowed_unchecked(level, max_brightness) == TRUE

\* if level <= self.max_brightness
LevelAllowed(level, max_brightness) == U32Le(level, max_brightness)

\* Zero written whatever the level.
BrightnessBytes_zero(level) == <<"0">>

\* The level written as a line, the way the kernel shows it.
BrightnessBytes_newline(level) == U32ToString(level) \o <<"\n">>

\* The bytes written: level.to_string().as_bytes()
BrightnessBytes(level) == U32ToString(level)

\* The file written: format!("{}/{}/brightness", dir, device)
BrightnessFile(dir, device) == FileOf(dir, device, "brightness")

\* The body both direct-write set_brightness share: the bound check, the
\* open, the single write_all.
SetBrightnessDirect(f, dir, device, max_brightness, level) ==
    LET target == BrightnessFile(dir, device)
        opened == OpenForWrite(f, target)
        bytes == BrightnessBytes(level)
        write == [file |-> target, bytes |-> bytes]
    IN IF LevelAllowed(level, max_brightness)
       THEN IF ~IsOk(opened)
            THEN [res |-> opened, writes |-> << >>, calls |-> << >>, fs |-> f]
            ELSE IF DriverAccepts(f, dir, opened.val, bytes)
            THEN [res |-> Ok(<< >>), writes |-> <<write>>, calls |-> << >>,
                  fs |-> DriverStore(f, dir, opened.val, bytes)]
            ELSE [res |-> Err(Io("InvalidInput")), writes |-> <<write>>,
                  calls |-> << >>, fs |-> f]
       ELSE [res |-> Err(InvalidBrightnessLevel(level, max_brightness)),
             writes |-> << >>, calls |-> << >>, fs |-> f]

\* logind's Session.SetBrightness(subsystem, name, level): it writes the
\* level to /sys/class/<subsystem>/<name>/brightness on the caller's behalf
\* and answers with an error when it cannot.
LogindSetBrightness(f, subsystem, device, level) ==
    LET found == EntriesNamed(f, subsystem, device)
        i == CHOOSE k \in found : TRUE
    IN IF /\ RootIsDir(f, subsystem)
          /\ found # {}
          /\ f[subsystem].entries[i].kind = "dir"
          /\ f[subsystem].entries[i].attrs["brightness"] # None
          /\ DriverAccepts(f, subsystem, i, U32ToString(level))
       THEN [ok |-> TRUE, fs |-> DriverStore(f, subsystem, i, U32ToString(level))]
       ELSE [ok |-> FALSE, fs |-> f]

\* The body both dbus set_brightness share: the bound check,
\* Connection::new_system().unwrap(), the SetBrightness method call.
SetBrightnessDBus(f, b, subsystem, device, max_brightness, level) ==
    LET call == [method |-> "SetBrightness", subsystem |-> subsystem,
                 device |-> device, level |-> level]
        done == LogindSetBrightness(f, subsystem, device, level)
    IN IF LevelAllowed(level, max_brightness)
       THEN IF b = "down"
            THEN [res |-> Panicked("unwrap"), writes |-> << >>,
                  calls |-> << >>, fs |-> f]
            ELSE IF b = "up" /\ done.ok
            THEN [res |-> Ok(<< >>), writes |-> << >>, calls |-> <<call>>,
                  fs |-> done.fs]
            ELSE [res |-> Err(SetBrightnessDBusError("call failed")),
                  writes |-> << >>, calls |-> <<call>>, fs |-> f]
       ELSE [res |-> Err(InvalidBrightnessLevel(level, max_brightness)),
             writes |-> << >>, calls |-> << >>, fs |-> f]

\* The receiver taking up the level it was asked to set.
SelfAfter_updated(self, level) == [self EXCEPT !.brightness = level]

\* set_brightness(&self, level) borrows the record immutably: the record
\* the caller holds after the call.
SelfAfter(self, level) == self

\* get_brightness(&self): self.brightness
get_brightness(self) == self.brightness

\* get_max_brightness(&self): self.max_brightness
get_max_brightness(self) == self.max_brightness

\* MonitorDevice::set_brightness(&self, level), the build's variant.
MonitorDevice_set_brightness(f, b, be, self, level) ==
    IF be = "dbus"
    THEN SetBrightnessDBus(f, b, "backlight", self.device,
                           self.max_brightness, level)
    ELSE SetBrightnessDirect(f, BACKLIGHT_DIR, self.device,
                             self.max_brightness, level)

\* LedDevice::set_brightness(&self, level), the build's variant.
LedDevice_set_brightness(f, b, be, self, level) ==
    IF be = "dbus"
    THEN SetBrightnessDBus(f, b, "leds", self.info.device,
                           self.max_brightness, level)
    ELSE SetBrightnessDirect(f, LEDS_DIR, self.info.device,
                             self.max_brightness, level)

---------------------------------------------------------------------------
\* The file tree at the start, and what the environment may do to it.

amdgpu_bl0 == <<"a", "m", "d", "g", "p", "u", "_", "b", "l", "0">>
intel_backlight ==
    <<"i", "n", "t", "e", "l", "_", "b", "a", "c", "k", "l", "i", "g", "h", "t">>
asus_kbd_backlight ==
    <<"a", "s", "u", "s", ":", ":", "k", "b", "d", "_", "b", "a", "c", "k",
      "l", "i", "g", "h", "t">>
input2_capslock ==
    <<"i", "n", "p", "u", "t", "2", ":", ":", "c", "a", "p", "s", "l", "o",
      "c", "k">>
phy0_led == <<"p", "h", "y", "0", "-", "l", "e", "d">>
\* A name no entry has.
nodev == <<"n", "o", "d", "e", "v">>

NoAttrs == [a \in AttrFiles |-> None]

BacklightEntry(name, power, brightness, actual, max, type) ==
    [name |-> name, kind |-> "dir", wr |-> "rw",
     attrs |-> [NoAttrs EXCEPT !["bl_power"] = Some(Line(U32(power))),
                               !["brightness"] = Some(Line(U32(brightness))),
                               !["actual_brightness"] = Some(Line(U32(actual))),
                               !["max_brightness"] = Some(Line(U32(max))),
                               !["type"] = Some(type \o <<"\n">>)]]

LedEntry(name, brightness, max) ==
    [name |-> name, kind |-> "dir", wr |-> "rw",
     attrs |-> [NoAttrs EXCEPT !["brightness"] = Some(Line(U32(brightness))),
                               !["max_brightness"] = Some(Line(U32(max)))]]

InitFs ==
    [backlight |->
        [root |-> "dir",
         entries |-> << BacklightEntry(amdgpu_bl0, 0, 50, 50, 100,
                                       <<"f", "i", "r", "m", "w", "a", "r", "e">>),
                        BacklightEntry(intel_backlight, 4, 7, 6, 15,
                                       <<"r", "a", "w">>) >>],
     leds |->
        [root |-> "dir",
         entries |-> << LedEntry(asus_kbd_backlight, 1, 3),
                        LedEntry(input2_capslock, 0, 1),
                        LedEntry(phy0_led, 0, 255) >>]]

\* Contents the environment may give an attribute file (None: no file).
EnvContents(dir, file) ==
    IF file = "type"
    THEN IF dir = BACKLIGHT_DIR
         THEN { None,
                Some(<<"p", "l", "a", "t", "f", "o", "r", "m", "\n">>),
                Some(<<"v", "e", "n", "d", "o", "r", "\n">>) }
         ELSE { Some(<<"r", "a", "w", "\n">>) }
    ELSE IF file = "brightness"
    THEN { None, Some(<<" ", "7", " ", "\n">>), Some(<<"2", "0", "0", "\n">>),
           Some(<< >>) }
    ELSE IF file = "max_brightness"
    THEN { None,
           Some(<<"4", "2", "9", "4", "9", "6", "7", "2", "9", "5", "\n">>),
           Some(<<"4", "2", "9", "4", "9", "6", "7", "2", "9", "6", "\n">>) }
    ELSE IF file = "actual_brightness"
    THEN IF dir = BACKLIGHT_DIR THEN { None, Some(<<"-", "1", "\n">>) }
         ELSE { Some(<<"0", "\n">>) }
    ELSE IF dir = BACKLIGHT_DIR THEN { None, Some(<<"+", "1", "\n">>) }
         ELSE { Some(<<"0", "\n">>) }

NoCall == [op |-> "none"]

\* Neither of the two concurrent callers has called yet.
NoCallers ==
    [c |-> << [pc |-> "idle"], [pc |-> "idle"] >>, wrote |-> << >>,
     overlap |-> FALSE]

\* No lookup or listing is in progress.
ScanIdle == [pc |-> "idle"]

\* The caller is between calls.
CanCall == last = NoCall

\* The caller is between calls, or has just set the brightness of `device`
\* under `dir` and reads the device back.
CanGet(dir, device) ==
    \/ CanCall
    \/ /\ last.op = "set_brightness"
       /\ last.arg.dir = dir
       /\ last.arg.device = device

\* An environment step: it counts.  It is taken between calls, once the
\* caller has taken the result of the last one.
EnvStep(f2, b2) ==
    /\ last = NoCall
    /\ changes < MaxChanges
    /\ fs' = f2
    /\ bus' = b2
    /\ changes' = changes + 1
    /\ last' = NoCall
    /\ before' = None
    /\ UNCHANGED <<backend, parse, callers, scan>>

\* An attribute file appears, disappears or changes content.
EnvSetAttr(dir, i, file, c) ==
    /\ fs[dir].entries[i].attrs[file] # c
    /\ EnvStep([fs EXCEPT ![dir].entries[i].attrs[file] = c], bus)

\* An entry stops being a device directory: it becomes a plain file, an entry
\* whose name is not UTF-8, or an entry read_dir fails on; or it is one again.
EnvSetKind(dir, i, k) ==
    /\ fs[dir].entries[i].kind # k
    /\ EnvStep([fs EXCEPT ![dir].entries[i].kind = k], bus)

\* A class root disappears, loses its read permission, or is back.
EnvSetRoot(dir, st) ==
    /\ fs[dir].root # st
    /\ EnvStep([fs EXCEPT ![dir].root = st], bus)

\* The brightness file of an entry becomes read-only for the caller ("ro"),
\* its driver starts refusing writes ("fail"), or both are lifted ("rw").
EnvSetWr(dir, i, w) ==
    /\ fs[dir].entries[i].wr # w
    /\ EnvStep([fs EXCEPT ![dir].entries[i].wr = w], bus)

\* The system bus goes away ("down"), logind refuses calls ("refuse"), or
\* both work ("up").
EnvSetBus(b) ==
    /\ backend = "dbus"
    /\ bus # b
    /\ EnvStep(fs, b)

\* The hardware of a backlight takes up the stored brightness:
\* actual_brightness now shows it.  A set_brightness that just succeeded on
\* this device is marked as applied; any other last call is forgotten.
HardwareSync(i) ==
    LET e == fs[BACKLIGHT_DIR].entries[i]
    IN /\ e.attrs["brightness"] # None
       /\ e.attrs["actual_brightness"] # e.attrs["brightness"]
       /\ fs' = [fs EXCEPT ![BACKLIGHT_DIR].entries[i].attrs["actual_brightness"]
                               = e.attrs["brightness"]]
       /\ CanGet(BACKLIGHT_DIR, e.name)
       /\ last' = IF /\ last.op = "set_brightness"
                     /\ IsOk(last.res)
                     /\ last.arg.dir = BACKLIGHT_DIR
                     /\ last.arg.device = e.name
                  THEN [last EXCEPT !.arg.applied = TRUE]
                  ELSE NoCall
       /\ before' = None
       /\ UNCHANGED <<bus, backend, changes, parse, callers, scan>>

---------------------------------------------------------------------------
\* The calls.

\* Device names callers ask for: the entries' names, a name no entry has,
\* and the empty name.
MonitorNames == {amdgpu_bl0, intel_backlight, nodev, << >>}
LedNames == {asus_kbd_backlight, input2_capslock, phy0_led, nodev, << >>}

\* Levels callers ask for.
Levels == {U32(0), U32(50), U32(100), U32(150), U32(70000)}

\* The records callers hold.  All fields of MonitorDevice and LedDevice are
\* public, and a record may be older than the file tree: its maximum need
\* not be the one the device has now.
SelfMaxima == {U32(100), U32Max}

MonitorRecords ==
    { [device |-> d, bl_power |-> U32(0), brightness |-> U32(50),
       actual_brightness |-> U32(50), max_brightness |-> m,
       bl_type |-> "FirmWare"] :
        d \in {amdgpu_bl0, nodev}, m \in SelfMaxima }

LedRecords ==
    { [info |-> LedInfo_from_string(d).val, brightness |-> U32(0),
       max_brightness |-> m] :
        d \in {phy0_led}, m \in SelfMaxima }

NoFilter == [device_name |-> None, color |-> None, function |-> None]

Filters ==
    { NoFilter,
      [NoFilter EXCEPT !.function = Some("KbdBacklight")],
      [NoFilter EXCEPT !.device_name = Some(<<"i", "n", "p", "u", "t">>)],
      [NoFilter EXCEPT !.color = Some("Red")],
      [NoFilter EXCEPT !.device_name = Some(<<"p", "h", "y">>),
                       !.function = Some("CapsLock")] }

MultiFilters ==
    { << >>,
      << NoFilter >>,
      << [NoFilter EXCEPT !.function = Some("KbdBacklight")] >>,
      << [NoFilter EXCEPT !.function = Some("KbdBacklight")],
         [NoFilter EXCEPT !.device_name = Some(<<"a", "s", "u", "s">>)] >>,
      << NoFilter, [NoFilter EXCEPT !.function = Some("CapsLock")] >> }

\* The set_brightness that is the most recent call, if it is one.
JustSet ==
    IF last.op = "set_brightness"
    THEN Some([dir |-> last.arg.dir, device |-> last.arg.device,
               self |-> last.arg.self, level |-> last.arg.level,
               ok |-> IsOk(last.res), applied |-> last.arg.applied])
    ELSE None

\* The caller takes the result of the last call and drops it.
TakeResult ==
    /\ last # NoCall
    /\ last' = NoCall
    /\ before' = None
    /\ UNCHANGED <<fs, bus, backend, changes, parse, callers, scan>>

\* The caller of a lookup by name displays the error it got (to_string).
DisplayError ==
    /\ last.op \in {"get_monitor_device", "get_led_device"}
    /\ IsErr(last.res)
    /\ last.shown = None
    /\ last' = [last EXCEPT !.shown = Some(Error_fmt(last.res.err))]
    /\ UNCHANGED <<fs, bus, backend, before, changes, parse, callers, scan>>

\* A query returns: nothing but the record of the call changes.
Query(op, arg, out) ==
    /\ last' = [op |-> op, arg |-> arg, res |-> out.res, reads |-> out.reads,
                writes |-> << >>, calls |-> << >>, shown |-> None]
    /\ before' = JustSet
    /\ UNCHANGED <<fs, bus, backend, changes, parse, callers, scan>>

\* The lookup answering from the tree as it was at the start.
GetMonitorDevice_cached(device) ==
    /\ CanGet(BACKLIGHT_DIR, device)
    /\ Query("get_monitor_device", [device |-> device],
          get_monitor_device(InitFs, device))

GetMonitorDevice(device) ==
    /\ CanGet(BACKLIGHT_DIR, device)
    /\ Query("get_monitor_device", [device |-> device],
          get_monitor_device(fs, device))

GetAllMonitorDevices ==
    /\ CanCall
    /\ Query("get_all_monitor_devices", << >>, get_all_monitor_devices(fs))

GetLedDevice(device) ==
    /\ CanGet(LEDS_DIR, device)
    /\ Query("get_led_device", [device |-> device], get_led_device(fs, device))

GetAllLedDevices ==
    /\ CanCall
    /\ Query("get_all_led_devices", << >>, get_all_led_devices(fs))

GetLedDevicesWithFilter(flt) ==
    /\ CanCall
    /\ Query("get_led_devices_with_filter", [f |-> flt],
          get_led_devices_with_filter(fs, flt))

GetLedDevicesWithMultiFilter(filters) ==
    /\ CanCall
    /\ Query("get_led_devices_with_multi_filter", [f |-> filters],
          get_led_devices_with_multi_filter(fs, filters))

GetAllKeyboardDevices ==
    /\ CanCall
    /\ Query("get_all_keyboard_devices", << >>, get_all_keyboard_devices(fs))

\* LedInfo::from_string(s) returns, for a name s.  It reads neither the file tree nor the
\* bus, so its result is the same in every state; it is called in the
\* initial one.
LedInfoFromString ==
    /\ CanCall
    /\ changes = 0
    /\ \E s \in InputNames :
            Query("from_string", [s |-> s],
                  [res |-> LedInfo_from_string(s), reads |-> << >>])

\* set_brightness returns: the file tree is the one the call left.
Setter(dir, device, self, level, out) ==
    /\ CanCall
    /\ last' = [op |-> "set_brightness",
                arg |-> [dir |-> dir, device |-> device, self |-> self,
                         level |-> level, applied |-> FALSE,
                         after |-> SelfAfter(self, level)],
                res |-> out.res, reads |-> << >>, writes |-> out.writes,
                calls |-> out.calls, shown |-> None]
    /\ before' = JustSet
    /\ fs' = out.fs
    /\ IsOk(out.res) => changes < MaxChanges
    /\ changes' = IF IsOk(out.res) THEN changes + 1 ELSE changes
    /\ UNCHANGED <<bus, backend, parse, callers, scan>>

MonitorSetBrightness(self, level) ==
    Setter(BACKLIGHT_DIR, self.device, self, level,
           MonitorDevice_set_brightness(fs, bus, backend, self, level))

LedSetBrightness(self, level) ==
    Setter(LEDS_DIR, self.info.device, self, level,
           LedDevice_set_brightness(fs, bus, backend, self, level))

---------------------------------------------------------------------------
\* The specifications.

Builds == {"direct", "dbus"}

Init ==
    /\ fs = InitFs
    /\ bus = "up"
    /\ backend \in Builds
    /\ last = NoCall
    /\ before = None
    /\ changes = 0
    /\ parse = ParseIdle
    /\ callers = NoCallers
    /\ scan = ScanIdle

Entries(dir) == 1..Len(fs[dir].entries)

Next ==
    \/ \E device \in MonitorNames : GetMonitorDevice(device)
    \/ GetAllMonitorDevices
    \/ \E device \in LedNames : GetLedDevice(device)
    \/ GetAllLedDevices
    \/ \E flt \in Filters : GetLedDevicesWithFilter(flt)
    \/ \E filters \in MultiFilters : GetLedDevicesWithMultiFilter(filters)
    \/ GetAllKeyboardDevices
    \/ LedInfoFromString
    \/ \E self \in MonitorRecords, level \in Levels :
            MonitorSetBrightness(self, level)
    \/ \E self \in LedRecords, level \in Levels : LedSetBrightness(self, level)
    \/ \E dir \in Family : \E i \in Entries(dir), file \in AttrFiles :
            \E c \in EnvContents(dir, file) : EnvSetAttr(dir, i, file, c)
    \/ \E dir \in Family : \E i \in Entries(dir) :
            \E k \in {"dir", "file", "nonutf8", "ioerr"} : EnvSetKind(dir, i, k)
    \/ \E dir \in Family, st \in {"dir", "absent", "unlistable"} :
            EnvSetRoot(dir, st)
    \/ \E dir \in Family : \E i \in Entries(dir) :
            \E w \in {"rw", "ro", "fail"} : EnvSetWr(dir, i, w)
    \/ \E b \in {"up", "down", "refuse"} : EnvSetBus(b)
    \/ \E i \in Entries(BACKLIGHT_DIR) : HardwareSync(i)
    \/ DisplayError
    \/ TakeResult

\* The library and its environment.
Spec == Init /\ [][Next]_vars

\* LedInfo::from_string on its own, one statement at a time.  It reads
\* neither the file tree nor the bus, so one build stands for both.
ParseInit == Init /\ backend = "direct"

ParseSpec == ParseInit /\ [][ParseNext]_vars

\* The same with the thread inside from_string always running on: the loop
\* is straight-line code that waits for nothing.
FairParseSpec ==
    /\ ParseInit
    /\ [][ParseNext]_vars
    /\ WF_vars(FromStringLoop)
    /\ WF_vars(FromStringReturn)

---------------------------------------------------------------------------
\* The token conversions and the filter predicates on their own.

AllTokens ==
    { LedColor_to_string(c) : c \in LedColor }
        \cup { LedFunction_to_string(f) : f \in LedFunction }

\* Strings handed to from_id: every token; every token capitalised, in
\* upper case, with white space before or after it, without its last
\* character, and with one character more; and the empty string.
IdStrings ==
    AllTokens
        \cup { UpperFirst(t) : t \in AllTokens }
        \cup { [i \in 1..Len(t) |-> ToUpper(t[i])] : t \in AllTokens }
        \cup { <<" ">> \o t : t \in AllTokens }
        \cup { t \o <<" ">> : t \in AllTokens }
        \cup { t \o <<"\n">> : t \in AllTokens }
        \cup { SubSeq(t, 1, Len(t) - 1) : t \in AllTokens }
        \cup { t \o <<"s">> : t \in AllTokens }
        \cup { << >> }

\* A conversion returns: nothing but the record of the call changes.
Pure(op, arg, res) == Query(op, arg, [res |-> res, reads |-> << >>])

LedColorFromId(s) ==
    CanCall /\ Pure("LedColor::from_id", [s |-> s], LedColor_from_id(s))

LedFunctionFromId(s) ==
    CanCall /\ Pure("LedFunction::from_id", [s |-> s], LedFunction_from_id(s))

LedColorToString(val) ==
    CanCall /\ Pure("LedColor::to_string", [val |-> val],
                    LedColor_to_string(val))

LedFunctionToString(val) ==
    CanCall /\ Pure("LedFunction::to_string", [val |-> val],
                    LedFunction_to_string(val))

LedColorInto(target, val) ==
    CanCall /\ Pure("LedColor::into", [val |-> val, target |-> target],
                    LedColor_into(target, val))

LedFunctionInto(target, val) ==
    CanCall /\ Pure("LedFunction::into", [val |-> val, target |-> target],
                    LedFunction_into(target, val))

\* Filters of every shape: each field absent or set, the device name also to
\* the empty string.
ShapedFilters ==
    { [device_name |-> d, color |-> c, function |-> fn] :
        d \in { None, Some(<<"p", "h", "y">>),
                Some(<<"i", "n", "p", "u", "t">>), Some(<< >>) },
        c \in { None, Some("Red"), Some("White") },
        fn \in { None, Some("KbdBacklight"), Some("CapsLock") } }

\* Entry names the filters are applied to.
FilteredNames ==
    { asus_kbd_backlight, input2_capslock, phy0_led, << >>,
      <<"p", "h", "y", "0", ":", "r", "e", "d", ":", "w", "l", "a", "n">>,
      <<"r", "e", "d", ":", "i", "n", "p", "u", "t">>,
      <<"W", "h", "i", "t", "e", ":", "C", "a", "p", "s", "L", "o", "c", "k">> }

LedFilterableFilter(flt, name) ==
    CanCall /\ Pure("LedFilterable::filter", [f |-> flt, name |-> name],
                    filter(flt, name))

\* Values handed to the builder of a filter.
BuilderNames == { <<"d", "e", "v">>, <<"a", "s", "u", "s">> }
BuilderColors == { "Red", "White" }
BuilderFunctions == { "KbdBacklight", "CapsLock" }

\* The last call returned the filter under construction.
Building ==
    last.op \in {"LedFilterable::new", "LedFilterable::with_device_name",
                 "LedFilterable::with_color", "LedFilterable::with_function"}

\* The calls made on the filter under construction, the last one included.
BuilderChain == Append(last.arg.chain, [op |-> last.op, x |-> last.arg.x])

\* let mut f = LedFilterable::new();
BuilderNew ==
    /\ CanCall
    /\ Pure("LedFilterable::new", [chain |-> << >>, x |-> << >>],
            LedFilterable_new)

\* f.with_device_name(x), on a filter that has no device name yet.
BuilderWithDeviceName(x) ==
    /\ Building
    /\ last.res.device_name = None
    /\ Pure("LedFilterable::with_device_name",
            [self |-> last.res, x |-> x, chain |-> BuilderChain],
            LedFilterable_with_device_name(last.res, x))

\* f.with_color(x), on a filter that has no colour yet.
BuilderWithColor(x) ==
    /\ Building
    /\ last.res.color = None
    /\ Pure("LedFilterable::with_color",
            [self |-> last.res, x |-> x, chain |-> BuilderChain],
            LedFilterable_with_color(last.res, x))

\* f.with_function(x), on a filter that has no function yet.
BuilderWithFunction(x) ==
    /\ Building
    /\ last.res.function = None
    /\ Pure("LedFilterable::with_function",
            [self |-> last.res, x |-> x, chain |-> BuilderChain],
            LedFilterable_with_function(last.res, x))

\* f.finish()
BuilderFinish ==
    /\ Building
    /\ Pure("LedFilterable::finish",
            [self |-> last.res, x |-> << >>, chain |-> BuilderChain],
            LedFilterable_finish(last.res))

TokenNext ==
    \/ \E s \in IdStrings : LedColorFromId(s)
    \/ \E s \in IdStrings : LedFunctionFromId(s)
    \/ \E val \in LedColor : LedColorToString(val)
    \/ \E val \in LedFunction : LedFunctionToString(val)
    \/ \E val \in LedColor, target \in IntoTargets : LedColorInto(target, val)
    \/ \E val \in LedFunction, target \in IntoTargets :
            LedFunctionInto(target, val)
    \/ \E flt \in ShapedFilters, name \in FilteredNames :
            LedFilterableFilter(flt, name)
    \/ BuilderNew
    \/ \E x \in BuilderNames : BuilderWithDeviceName(x)
    \/ \E x \in BuilderColors : BuilderWithColor(x)
    \/ \E x \in BuilderFunctions : BuilderWithFunction(x)
    \/ BuilderFinish
    \/ TakeResult

\* The conversions read neither the file tree nor the bus, so one build
\* stands for both.
TokenSpec == ParseInit /\ [][TokenNext]_vars

---------------------------------------------------------------------------
\* Two callers in set_brightness at the same time.  A call is the bound
\* check, the open (the bus connection in the dbus build) and the write (the
\* method call); the steps of the two callers interleave freely, for the
\* library takes no lock.

Callers == {1, 2}

\* The records the callers hold: as read from the tree at the start, and an
\* LED record with a maximum above the one the device has.
RaceRecords ==
    { [dir |-> BACKLIGHT_DIR, device |-> amdgpu_bl0,
       max_brightness |-> U32(100)],
      [dir |-> LEDS_DIR, device |-> phy0_led, max_brightness |-> U32(255)],
      [dir |-> LEDS_DIR, device |-> phy0_led, max_brightness |-> U32Max] }

RaceLevels == {U32(50), U32(100), U32(150), U32(70000)}

\* Caller c moves on; the calls overlap when the other caller is in the
\* middle of its own.
Advance(c, next, wrote) ==
    callers' = [c |-> [callers.c EXCEPT ![c] = next],
                wrote |-> wrote,
                overlap |-> callers.overlap
                            \/ callers.c[3 - c].pc \in {"check", "open", "write"}]

Returned(c, res) == [callers.c[c] EXCEPT !.pc = "done", !.res = res]

\* self.set_brightness(level) is entered.
RaceCall(c, self, level) ==
    /\ callers.c[c].pc = "idle"
    /\ Advance(c, [pc |-> "check", self |-> self, level |-> level,
                   res |-> None, handle |-> 0], callers.wrote)
    /\ UNCHANGED <<fs, bus, backend, last, before, changes, parse, scan>>

\* if level <= self.max_brightness ... else Err(InvalidBrightnessLevel)
RaceCheck(c) ==
    LET me == callers.c[c]
    IN /\ me.pc = "check"
       /\ Advance(c,
            IF LevelAllowed(me.level, me.self.max_brightness)
            THEN [me EXCEPT !.pc = "open"]
            ELSE Returned(c, Err(InvalidBrightnessLevel(
                                    me.level, me.self.max_brightness))),
            callers.wrote)
       /\ UNCHANGED <<fs, bus, backend, last, before, changes, parse, scan>>

\* OpenOptions::new().write(true).open(..)? in the direct build,
\* Connection::new_system().unwrap() in the dbus build.
RaceOpen(c) ==
    LET me == callers.c[c]
        opened == OpenForWrite(fs, BrightnessFile(me.self.dir, me.self.device))
    IN /\ me.pc = "open"
       /\ Advance(c,
            IF backend = "dbus"
            THEN IF bus = "down" THEN Returned(c, Panicked("unwrap"))
                 ELSE [me EXCEPT !.pc = "write"]
            ELSE IF IsOk(opened)
                 THEN [me EXCEPT !.pc = "write", !.handle = opened.val]
                 ELSE Returned(c, opened),
            callers.wrote)
       /\ UNCHANGED <<fs, bus, backend, last, before, changes, parse, scan>>

\* brightness.write_all(level.to_string().as_bytes()) on the file opened
\* before, in the direct build; the SetBrightness method call in the dbus
\* build.
RaceWrite(c) ==
    LET me == callers.c[c]
        bytes == BrightnessBytes(me.level)
        direct == DriverAccepts(fs, me.self.dir, me.handle, bytes)
        logind == LogindSetBrightness(fs, me.self.dir, me.self.device, me.level)
        ok == IF backend = "dbus" THEN bus = "up" /\ logind.ok ELSE direct
    IN /\ me.pc = "write"
       /\ fs' = IF ~ok THEN fs
                ELSE IF backend = "dbus" THEN logind.fs
                ELSE DriverStore(fs, me.self.dir, me.handle, bytes)
       /\ Advance(c,
            IF ok THEN Returned(c, Ok(<< >>))
            ELSE IF backend = "dbus"
            THEN Returned(c, Err(SetBrightnessDBusError("call failed")))
            ELSE Returned(c, Err(Io("InvalidInput"))),
            IF ok THEN Append(callers.wrote, c) ELSE callers.wrote)
       /\ UNCHANGED <<bus, backend, last, before, changes, parse, scan>>

RaceNext ==
    \/ \E c \in Callers, self \in RaceRecords, level \in RaceLevels :
            RaceCall(c, self, level)
    \/ \E c \in Callers : RaceCheck(c)
    \/ \E c \in Callers : RaceOpen(c)
    \/ \E c \in Callers : RaceWrite(c)
    \/ \E dir \in Family : \E i \in Entries(dir) :
            \E w \in {"rw", "ro", "fail"} : EnvSetWr(dir, i, w)
    \/ \E b \in {"up", "down", "refuse"} : EnvSetBus(b)

\* Two concurrent set_brightness calls and the environment.
RaceSpec == Init /\ [][RaceNext]_vars

---------------------------------------------------------------------------
\* A lookup or a listing one system call at a time: the probe of the class
\* root, read_dir, and for every entry the probe of its directory and the
\* read of each attribute file.  The environment removes entries and
\* attribute files between any two of these steps.

\* The attributes a lookup under `dir` reads, in order.
ScanAttrs(dir) == IF dir = BACKLIGHT_DIR THEN MonitorAttrs ELSE LedAttrs

\* The call returns.
ScanDone(res) == scan' = [scan EXCEPT !.pc = "done", !.res = res]

\* get_all_monitor_devices() or get_all_led_devices() is entered.
ScanCallAll(dir) ==
    /\ scan.pc = "idle"
    /\ scan' = [pc |-> "root", op |-> "get_all", dir |-> dir,
                filters |-> << >>, listed |-> << >>, todo |-> << >>,
                device |-> << >>, k |-> 0, vals |-> << >>, out |-> << >>,
                reads |-> << >>, res |-> None]
    /\ UNCHANGED <<fs, bus, backend, last, before, changes, parse, callers>>

\* get_led_devices_with_filter(f) / get_led_devices_with_multi_filter(fs)
\* is entered; the single filter is the list of one.
ScanCallFiltered(filters) ==
    /\ scan.pc = "idle"
    /\ scan' = [pc |-> "root", op |-> "filtered", dir |-> LEDS_DIR,
                filters |-> filters, listed |-> << >>, todo |-> << >>,
                device |-> << >>, k |-> 0, vals |-> << >>, out |-> << >>,
                reads |-> << >>, res |-> None]
    /\ UNCHANGED <<fs, bus, backend, last, before, changes, parse, callers>>

\* get_monitor_device(device) or get_led_device(device) is entered.
ScanCallDevice(dir, device) ==
    /\ scan.pc = "idle"
    /\ scan' = [pc |-> "probe", op |-> "get_device", dir |-> dir,
                filters |-> << >>, listed |-> << >>, todo |-> << >>,
                device |-> device, k |-> 0, vals |-> << >>, out |-> << >>,
                reads |-> << >>, res |-> None]
    /\ UNCHANGED <<fs, bus, backend, last, before, changes, parse, callers>>

\* if Path::new(DIR).is_dir() { .. } else { Ok(empty) }
ScanRoot ==
    /\ scan.pc = "root"
    /\ IF RootIsDir(fs, scan.dir) THEN scan' = [scan EXCEPT !.pc = "list"]
       ELSE ScanDone(Ok(<< >>))
    /\ UNCHANGED <<fs, bus, backend, last, before, changes, parse, callers>>

\* fs::read_dir(DIR)? in the listings of everything, fs::read_dir(DIR)
\* .unwrap() and the iterator filters in the filtered listings.
ScanReadDir ==
    LET listing == ReadDir(fs, scan.dir)
        kept == IF scan.op = "get_all" THEN listing.val
                ELSE SelectSeq(listing.val, LAMBDA e :
                        /\ e.kind \in {"dir", "file"}
                        /\ multi_filter_led(scan.filters, e.name))
    IN /\ scan.pc = "list"
       /\ IF IsOk(listing)
          THEN scan' = [scan EXCEPT !.pc = "next", !.todo = kept,
                            !.listed = [k \in 1..Len(kept) |-> kept[k].name]]
          ELSE IF scan.op = "get_all" THEN ScanDone(listing)
          ELSE ScanDone(Panicked("unwrap"))
       /\ UNCHANGED <<fs, bus, backend, last, before, changes, parse, callers>>

\* The next item of the iterator: `device?`, file_name().into_string()
\* .unwrap(), and Ok(collection) when there is none left.
ScanNextEntry ==
    /\ scan.pc = "next"
    /\ IF scan.todo = << >> THEN ScanDone(Ok(scan.out))
       ELSE IF Head(scan.todo).kind = "ioerr" THEN ScanDone(Err(Io("Other")))
       ELSE IF Head(scan.todo).kind = "nonutf8"
       THEN ScanDone(Panicked("unwrap"))
       ELSE scan' = [scan EXCEPT !.pc = "probe",
                                 !.device = Head(scan.todo).name,
                                 !.todo = Tail(scan.todo)]
    /\ UNCHANGED <<fs, bus, backend, last, before, changes, parse, callers>>

\* The probe that passes over an entry that is no directory any more.
ScanProbe_skipping ==
    /\ scan.pc = "probe"
    /\ IF PathIsDir(fs, scan.dir, scan.device)
       THEN scan' = [scan EXCEPT !.pc = "attr", !.k = 1, !.vals = << >>]
       ELSE IF scan.op = "get_device"
       THEN ScanDone(Err(InvalidDeviceName(scan.device)))
       ELSE scan' = [scan EXCEPT !.pc = "next"]
    /\ UNCHANGED <<fs, bus, backend, last, before, changes, parse, callers>>

\* if Path::new(format!("{}/{}", DIR, &device).as_str()).is_dir() { .. }
\* else { Err(Error::InvalidDeviceName { device }) }
ScanProbe ==
    /\ scan.pc = "probe"
    /\ IF PathIsDir(fs, scan.dir, scan.device)
       THEN scan' = [scan EXCEPT !.pc = "attr", !.k = 1, !.vals = << >>]
       ELSE ScanDone(Err(InvalidDeviceName(scan.device)))
    /\ UNCHANGED <<fs, bus, backend, last, before, changes, parse, callers>>

\* The record of the device whose attributes have all been read.
ScanRecord(dir, device, vals) ==
    IF dir = BACKLIGHT_DIR
    THEN MonitorDeviceOf(device, vals[1], vals[2], vals[3], vals[4], vals[5])
    ELSE [info |-> LedInfo_from_string(device).val,
          brightness |-> vals[1], max_brightness |-> vals[2]]

\* Attribute k of the device: read_sys_*(..)?.parse::<u32>()?, and for
\* `type` the match on the content.  After the last one the record is built
\* and returned or pushed.
ScanReadAttr ==
    LET info == ScanAttrs(scan.dir)[scan.k]
        text == IF scan.dir = BACKLIGHT_DIR
                THEN read_sys_backlight(fs, scan.device, info)
                ELSE read_sys_led(fs, scan.device, info)
        got == IF ~IsOk(text) THEN text
               ELSE IF info # "Type" THEN ParsedU32(text)
               ELSE IF IsSome(BackLightTypeOf(text.val))
               THEN Ok(Unwrap(BackLightTypeOf(text.val)))
               ELSE Panicked("unreachable")
        vals == Append(scan.vals, got.val)
        reads == Append(scan.reads,
                        FileOf(scan.dir, scan.device, InterfaceFile(info)))
        record == ScanRecord(scan.dir, scan.device, vals)
    IN /\ scan.pc = "attr"
       /\ IF ~IsOk(got)
          THEN scan' = [scan EXCEPT !.pc = "done", !.res = got,
                                    !.reads = reads]
          ELSE IF scan.k < Len(ScanAttrs(scan.dir))
          THEN scan' = [scan EXCEPT !.k = scan.k + 1, !.vals = vals,
                                    !.reads = reads]
          ELSE IF scan.op = "get_device"
          THEN scan' = [scan EXCEPT !.pc = "done", !.res = Ok(record),
                                    !.reads = reads]
          ELSE scan' = [scan EXCEPT !.pc = "next", !.reads = reads,
                                    !.out = Append(scan.out, record)]
       /\ UNCHANGED <<fs, bus, backend, last, before, changes, parse, callers>>

\* The caller takes the result and is free to call again.
ScanTake ==
    /\ scan.pc = "done"
    /\ scan' = ScanIdle
    /\ UNCHANGED <<fs, bus, backend, last, before, changes, parse, callers>>

\* The environment removes a device directory while a call is running.
EnvRemoveEntry(dir, i) ==
    /\ scan.pc \notin {"idle", "done"}
    /\ EnvStep([fs EXCEPT ![dir].entries = RemoveAt(fs[dir].entries, i - 1)],
               bus)

\* The environment removes an attribute file while a call is running.
EnvRemoveAttr(dir, i, file) ==
    /\ scan.pc \notin {"idle", "done"}
    /\ fs[dir].entries[i].attrs[file] # None
    /\ EnvStep([fs EXCEPT ![dir].entries[i].attrs[file] = None], bus)

ScanNext ==
    \/ \E dir \in Family : ScanCallAll(dir)
    \/ \E filters \in MultiFilters : ScanCallFiltered(filters)
    \/ \E device \in MonitorNames : ScanCallDevice(BACKLIGHT_DIR, device)
    \/ \E device \in LedNames : ScanCallDevice(LEDS_DIR, device)
    \/ ScanRoot
    \/ ScanReadDir
    \/ ScanNextEntry
    \/ ScanProbe
    \/ ScanReadAttr
    \/ ScanTake
    \/ \E dir \in Family : \E i \in Entries(dir) : EnvRemoveEntry(dir, i)
    \/ \E dir \in Family : \E i \in Entries(dir), file \in AttrFiles :
            EnvRemoveAttr(dir, i, file)

\* A lookup or listing against an environment that removes what it is about
\* to read.  The steps touch neither the bus nor the brightness files, so
\* one build stands for both.
ScanSpec == ParseInit /\ [][ScanNext]_vars

---------------------------------------------------------------------------
\* The listings of LEDs over a root whose entries have any names: names
\* as the kernel gives them (devicename:color:function with parts left
\* out) and names that hold a token in another place.

EntryNames ==
    { asus_kbd_backlight,
      input2_capslock,
      <<"k", "b", "d", "_", "b", "a", "c", "k", "l", "i", "g", "h", "t">>,
      <<"w", "h", "i", "t", "e", ":", "k", "b", "d", "_", "b", "a", "c", "k",
        "l", "i", "g", "h", "t">>,
      <<"k", "b", "d", "_", "b", "a", "c", "k", "l", "i", "g", "h", "t", ":",
        "r", "e", "d", ":", "p", "o", "w", "e", "r">>,
      <<"a", "s", "u", "s", "_", "k", "b", "d", "_", "b", "a", "c", "k", "l",
        "i", "g", "h", "t">> }

\* The entries of a directory: up to MaxEntries names, no name twice.
RECURSIVE Listings(_)
Listings(n) ==
    IF n = 0 THEN { << >> }
    ELSE LET shorter == Listings(n - 1)
         IN shorter \cup
            { Append(l, x) : l \in { m \in shorter : Len(m) = n - 1 },
                             x \in EntryNames }

DistinctListings ==
    { l \in Listings(MaxEntries) :
        \A i, j \in 1..Len(l) : i # j => l[i] # l[j] }

\* The backlight root as at the start, the LED root with the named entries,
\* each a device directory showing brightness 1 of 3.
NamedFs(names) ==
    [InitFs EXCEPT ![LEDS_DIR].entries =
        [k \in 1..Len(names) |-> LedEntry(names[k], 1, 3)]]

NamedInit ==
    /\ fs \in { NamedFs(names) : names \in DistinctListings }
    /\ bus = "up"
    /\ backend = "direct"
    /\ last = NoCall
    /\ before = None
    /\ changes = 0
    /\ parse = ParseIdle
    /\ callers = NoCallers
    /\ scan = ScanIdle

NamedNext ==
    \/ GetAllLedDevices
    \/ \E flt \in Filters : GetLedDevicesWithFilter(flt)
    \/ \E filters \in MultiFilters : GetLedDevicesWithMultiFilter(filters)
    \/ GetAllKeyboardDevices
    \/ TakeResult

\* The listings read neither the bus nor the brightness of a device, so one
\* build stands for both.
NamedSpec == NamedInit /\ [][NamedNext]_vars

---------------------------------------------------------------------------
\* Properties.  A call step is a step from `last = NoCall` to a state whose
\* `last` records the call; `last` then holds what the call was given and
\* what it did, and `fs`, `bus` are what it left.

\* a > b on u32, limb by limb.
Above(a, b) == a.hi > b.hi \/ (a.hi = b.hi /\ a.lo > b.lo)

\* The step is a set_brightness call.
SetCall == last = NoCall /\ last'.op = "set_brightness"

\* C1: for every MonitorDevice and LedDevice record and every level above the
\* record's max_brightness, set_brightness(level) returns
\* InvalidBrightnessLevel{given: level, max: record.max_brightness}, writes
\* no file, makes no bus call and leaves the file tree and the bus as they
\* were, in both builds.
C1_AboveMaxRejected ==
    [][ (SetCall /\ Above(last'.arg.level, last'.arg.self.max_brightness))
        => /\ last'.res = Err([kind |-> "InvalidBrightnessLevel",
                               given |-> last'.arg.level,
                               max |-> last'.arg.self.max_brightness])
           /\ last'.writes = << >>
           /\ last'.calls = << >>
           /\ fs' = fs
           /\ bus' = bus ]_vars

\* An LED record with maximum 100 was asked for 150 and the call was refused.
C1_Witness ==
    /\ last.op = "set_brightness"
    /\ last.arg.dir = LEDS_DIR
    /\ last.arg.self.max_brightness = U32(100)
    /\ last.arg.level = U32(150)
    /\ last.res.tag = "Err"
    /\ last.res.err.kind = "InvalidBrightnessLevel"

\* The number a string of decimal digits denotes (strings of at most nine
\* digits).
RECURSIVE DecimalValue(_)
DecimalValue(bytes) ==
    IF bytes = << >> THEN 0
    ELSE 10 * DecimalValue(SubSeq(bytes, 1, Len(bytes) - 1))
         + DigitVal(bytes[Len(bytes)])

\* `bytes` is the decimal ASCII form of the u32 v: digits only, no sign, no
\* white space, no newline, no leading zero, and the value is v.
IsDecimalOf(bytes, v) ==
    /\ bytes # << >>
    /\ Len(bytes) <= 9
    /\ \A k \in 1..Len(bytes) : IsDigit(bytes[k])
    /\ Len(bytes) > 1 => bytes[1] # "0"
    /\ v.hi < 2048
    /\ DecimalValue(bytes) = v.hi * 65536 + v.lo

\* Two file trees differ at most in the content of one attribute file.
SameExcept(f, g, target) ==
    \A dir \in Family :
        /\ f[dir].root = g[dir].root
        /\ Len(f[dir].entries) = Len(g[dir].entries)
        /\ \A i \in 1..Len(f[dir].entries) :
            /\ f[dir].entries[i].name = g[dir].entries[i].name
            /\ f[dir].entries[i].kind = g[dir].entries[i].kind
            /\ f[dir].entries[i].wr = g[dir].entries[i].wr
            /\ \A file \in AttrFiles :
                \/ f[dir].entries[i].attrs[file] = g[dir].entries[i].attrs[file]
                \/ /\ dir = target.dir
                   /\ f[dir].entries[i].name = target.device
                   /\ file = target.file

\* C2: in the direct-write build, set_brightness(level) with
\* 0 <= level <= record.max_brightness (0 and the maximum included) opens
\* <root>/<device>/brightness of that device; when the open succeeds it
\* writes exactly once, exactly the decimal ASCII digits of level without a
\* trailing newline, to that file; no other file of either class directory
\* changes; the result is Ok(()) when open and write succeed, and Error::Io
\* when either fails (nothing is written when the open fails).
C2_DirectWrite ==
    [][ (/\ backend = "direct"
         /\ SetCall
         /\ ~Above(last'.arg.level, last'.arg.self.max_brightness))
        => LET a == last'.arg
               target == [dir |-> a.dir, device |-> a.device,
                          file |-> "brightness"]
               opened == OpenForWrite(fs, target)
               w == last'.writes
           IN /\ last'.calls = << >>
              /\ SameExcept(fs, fs', target)
              /\ IF ~IsOk(opened)
                 THEN /\ w = << >>
                      /\ last'.res.tag = "Err"
                      /\ last'.res.err.kind = "Io"
                      /\ fs' = fs
                 ELSE /\ Len(w) = 1
                      /\ w[1].file = target
                      /\ IsDecimalOf(w[1].bytes, a.level)
                      /\ IF DriverAccepts(fs, a.dir, opened.val, w[1].bytes)
                         THEN last'.res = Ok(<< >>)
                         ELSE /\ last'.res.tag = "Err"
                              /\ last'.res.err.kind = "Io"
                              /\ fs' = fs ]_vars

\* The direct build wrote "100", the maximum, to amdgpu_bl0/brightness and
\* returned Ok(()).
C2_Witness ==
    /\ backend = "direct"
    /\ last.op = "set_brightness"
    /\ last.arg.dir = BACKLIGHT_DIR
    /\ last.arg.device = amdgpu_bl0
    /\ last.arg.level = U32(100)
    /\ last.arg.self.max_brightness = U32(100)
    /\ last.res = Ok(<< >>)
    /\ last.writes = << [file |-> [dir |-> BACKLIGHT_DIR, device |-> amdgpu_bl0,
                                    file |-> "brightness"],
                         bytes |-> <<"1", "0", "0">>] >>

\* <root>/<name> is a directory: the root is there, and the name is empty
\* (the root itself) or that of an entry that is a directory.
IsDeviceDir(dir, name) ==
    /\ fs[dir].root # "absent"
    /\ \/ name = << >>
       \/ \E i \in 1..Len(fs[dir].entries) :
            /\ fs[dir].entries[i].name = name
            /\ fs[dir].entries[i].kind = "dir"

\* The call in `last` is get_monitor_device(name) made right after a
\* set_brightness on the monitor record of the same name.
GetAfterSet ==
    /\ last.op = "get_monitor_device"
    /\ before # None
    /\ Unwrap(before).dir = BACKLIGHT_DIR
    /\ Unwrap(before).device = last.arg.device

ListedDir ==
    IF last.op = "get_all_monitor_devices" THEN BACKLIGHT_DIR ELSE LEDS_DIR

ListCall == last.op \in {"get_all_monitor_devices", "get_all_led_devices"}

\* C4: get_all_monitor_devices() and get_all_led_devices() return Ok with an
\* empty collection when the class root directory is absent.
C4_AbsentRootEmpty ==
    (ListCall /\ fs[ListedDir].root = "absent")
    => last.res = [tag |-> "Ok", val |-> << >>]

\* /sys/class/leds is gone and get_all_led_devices() returned Ok(vec![]).
C4_Witness ==
    /\ last.op = "get_all_led_devices"
    /\ fs[LEDS_DIR].root = "absent"
    /\ last.res = [tag |-> "Ok", val |-> << >>]

\* What materializing the entry e of a listing gives: the result of the
\* single-device lookup of its name; an entry the listing cannot name has no
\* record.
Materialized(dir, e) ==
    IF e.kind \notin {"dir", "file"} THEN [tag |-> "Err", err |-> "entry"]
    ELSE IF dir = BACKLIGHT_DIR THEN get_monitor_device(fs, e.name).res
    ELSE get_led_device(fs, e.name).res

\* C5 as stated: a listing call on a class root that is there returns Ok with
\* exactly one record per entry, in listing order, when every entry
\* materializes, and otherwise returns the failure (an Err) of the first
\* entry in listing order that does not.
C5_AllOrNothing ==
    (ListCall /\ fs[ListedDir].root = "dir")
    => LET es == fs[ListedDir].entries
           bad == { i \in 1..Len(es) : Materialized(ListedDir, es[i]).tag # "Ok" }
           first == CHOOSE i \in bad : \A j \in bad : i <= j
       IN IF bad = {}
          THEN last.res = [tag |-> "Ok",
                           val |-> [i \in 1..Len(es) |->
                                       Materialized(ListedDir, es[i]).val]]
          ELSE /\ last.res.tag = "Err"
               /\ es[first].kind \in {"dir", "file"}
                    => last.res = Materialized(ListedDir, es[first])

LookupDir == IF last.op = "get_monitor_device" THEN BACKLIGHT_DIR ELSE LEDS_DIR

\* C6: get_monitor_device(name) and get_led_device(name) return
\* InvalidDeviceName carrying exactly the given name whenever <root>/<name>
\* is not a directory, and read no attribute file then.
C6_NotADirectory ==
    (/\ last.op \in {"get_monitor_device", "get_led_device"}
     /\ ~IsDeviceDir(LookupDir, last.arg.device))
    => /\ last.res = [tag |-> "Err",
                      err |-> [kind |-> "InvalidDeviceName",
                               device |-> last.arg.device]]
       /\ last.reads = << >>

\* intel_backlight has become a plain file, and get_monitor_device of it
\* returned InvalidDeviceName("intel_backlight") without a read.
C6_Witness ==
    /\ last.op = "get_monitor_device"
    /\ last.arg.device = intel_backlight
    /\ \E i \in 1..Len(fs[BACKLIGHT_DIR].entries) :
        /\ fs[BACKLIGHT_DIR].entries[i].name = intel_backlight
        /\ fs[BACKLIGHT_DIR].entries[i].kind = "file"
    /\ last.res.tag = "Err"
    /\ last.res.err.kind = "InvalidDeviceName"
    /\ last.res.err.device = intel_backlight
    /\ last.reads = << >>

\* s without its leading and trailing white space: the stretch from its
\* first to its last character that is not white space.
Trimmed(s) ==
    LET solid == { k \in 1..Len(s) : s[k] \notin WhiteSpace }
    IN IF solid = {} THEN << >>
       ELSE SubSeq(s, CHOOSE k \in solid : \A j \in solid : k <= j,
                      CHOOSE k \in solid : \A j \in solid : k >= j)

\* a <= b for digit strings of the same length.
DigitsLe(a, b) ==
    \/ a = b
    \/ \E k \in 1..Len(a) :
        /\ \A j \in 1..(k - 1) : a[j] = b[j]
        /\ DigitVal(a[k]) < DigitVal(b[k])

\* t is the decimal form of a u32: digits only, no leading zero, at most
\* 4294967295.
IsU32Text(t) ==
    /\ t # << >>
    /\ \A k \in 1..Len(t) : IsDigit(t[k])
    /\ Len(t) > 1 => t[1] # "0"
    /\ \/ Len(t) < 10
       \/ /\ Len(t) = 10
          /\ DigitsLe(t, <<"4", "2", "9", "4", "9", "6", "7", "2", "9", "5">>)

\* The BackLightType a trimmed type content names, if it names one.
TypeNamed(t) ==
    IF t = <<"f", "i", "r", "m", "w", "a", "r", "e">> THEN "FirmWare"
    ELSE IF t = <<"p", "l", "a", "t", "f", "o", "r", "m">> THEN "PlatForm"
    ELSE IF t = <<"r", "a", "w">> THEN "Raw"
    ELSE "none"

\* Entry i of the backlight root is a directory whose five attribute files
\* are there and well-formed.
WellFormedMonitor(i) ==
    LET e == fs[BACKLIGHT_DIR].entries[i]
    IN /\ fs[BACKLIGHT_DIR].root # "absent"
       /\ e.kind = "dir"
       /\ \A file \in {"bl_power", "brightness", "actual_brightness",
                       "max_brightness"} :
            /\ e.attrs[file] # << >>
            /\ IsU32Text(Trimmed(e.attrs[file][1]))
       /\ e.attrs["type"] # << >>
       /\ TypeNamed(Trimmed(e.attrs["type"][1])) # "none"

\* C7: when <backlight_root>/<name> is a directory whose five attribute
\* files are readable and well-formed, get_monitor_device(name) returns a
\* record with device = name, each of bl_power, brightness,
\* actual_brightness, max_brightness the u32 whose decimal form is the
\* trimmed content of the file of the same name, and bl_type FirmWare,
\* PlatForm or Raw for the trimmed type content "firmware", "platform",
\* "raw".
C7_FieldsFromFiles ==
    \A i \in 1..Len(fs[BACKLIGHT_DIR].entries) :
        (/\ last.op = "get_monitor_device"
         /\ last.arg.device = fs[BACKLIGHT_DIR].entries[i].name
         /\ WellFormedMonitor(i))
        => LET a == fs[BACKLIGHT_DIR].entries[i].attrs
           IN /\ last.res.tag = "Ok"
              /\ last.res.val.device = last.arg.device
              /\ U32ToString(last.res.val.bl_power)
                    = Trimmed(a["bl_power"][1])
              /\ U32ToString(last.res.val.brightness)
                    = Trimmed(a["brightness"][1])
              /\ U32ToString(last.res.val.actual_brightness)
                    = Trimmed(a["actual_brightness"][1])
              /\ U32ToString(last.res.val.max_brightness)
                    = Trimmed(a["max_brightness"][1])
              /\ last.res.val.bl_type = TypeNamed(Trimmed(a["type"][1]))

\* intel_backlight holds four different numbers (4, 7, 6, 15) and type raw,
\* and the record read from it has each in its own field.
C7_Witness ==
    /\ last.op = "get_monitor_device"
    /\ last.arg.device = intel_backlight
    /\ WellFormedMonitor(2)
    /\ last.res = [tag |-> "Ok",
                   val |-> [device |-> intel_backlight,
                            bl_power |-> [hi |-> 0, lo |-> 4],
                            brightness |-> [hi |-> 0, lo |-> 7],
                            actual_brightness |-> [hi |-> 0, lo |-> 6],
                            max_brightness |-> [hi |-> 0, lo |-> 15],
                            bl_type |-> "Raw"]]

\* C8 as stated: every public operation ends by returning a Result, Ok or
\* Err, and never panics, whatever the file tree and the bus are.
C8_NeverPanics ==
    last.op # "none" => last.res.tag \in {"Ok", "Err"}

\* The name in `parse` is A:ct:ft for a non-empty A without a colon.
IsThreePart(s, ct, ft) ==
    LET suffix == <<":">> \o ct \o <<":">> \o ft
        n == Len(s) - Len(suffix)
    IN /\ n >= 1
       /\ SubSeq(s, n + 1, Len(s)) = suffix
       /\ \A k \in 1..n : s[k] # ":"

\* C9: for every name "A:c:f" with A a non-empty segment, c the token of a
\* colour and f the token of a function, LedInfo::from_string yields
\* device_name = Some(A), color = Some(the colour whose token is c) and
\* function = Some(the function whose token is f), so that stringifying them
\* gives back c and f.
C9_ThreePartRoundTrip ==
    \A c \in LedColor, f \in LedFunction :
        (/\ parse.pc = "done"
         /\ IsThreePart(parse.s, LedColor_to_string(c), LedFunction_to_string(f)))
        => LET ct == LedColor_to_string(c)
               ft == LedFunction_to_string(f)
               info == parse.info
           IN /\ info.device_name
                    = << SubSeq(parse.s, 1, Len(parse.s) - Len(ct) - Len(ft) - 2) >>
              /\ info.color = << c >>
              /\ info.function = << f >>
              /\ LedColor_to_string(info.color[1]) = ct
              /\ LedFunction_to_string(info.function[1]) = ft

\* "red:red:power" was parsed: device name "red", colour Red, function Power.
C9_Witness ==
    /\ parse.pc = "done"
    /\ parse.s = <<"r", "e", "d", ":", "r", "e", "d", ":", "p", "o", "w", "e", "r">>
    /\ parse.info.device_name = << <<"r", "e", "d">> >>
    /\ parse.info.color = << "Red" >>
    /\ parse.info.function = << "Power" >>

\* A segment that is neither a colour token nor a function token.
IsPlainSegment(seg) ==
    LedColor_from_id(seg) = << >> /\ LedFunction_from_id(seg) = << >>

\* C10 as stated: when the name has not exactly three non-empty segments,
\* from_string sets device_name to the first segment, in name order, that is
\* neither a colour nor a function token (and to None when there is none).
C10_FirstPlainSegmentKept ==
    (parse.pc = "done" /\ Len(Segments(parse.s)) # 3)
    => LET plain == SelectSeq(Segments(parse.s), IsPlainSegment)
       IN parse.info.device_name
            = IF plain = << >> THEN << >> ELSE << plain[1] >>

\* The tokens of the colours and of the functions, as they are printed.
ColorTokens == { LedColor_to_string(c) : c \in LedColor }
FunctionTokens == { LedFunction_to_string(f) : f \in LedFunction }

\* The name s is A::ft for a non-empty A without a colon that is no token:
\* the A, or the empty string when s is not of that form.
DeviceOfTwoPart(s, ft) ==
    LET suffix == <<":", ":">> \o ft
        n == Len(s) - Len(suffix)
    IN IF /\ n >= 1
          /\ SubSeq(s, n + 1, Len(s)) = suffix
          /\ \A k \in 1..n : s[k] # ":"
          /\ SubSeq(s, 1, n) \notin ColorTokens \cup FunctionTokens
       THEN SubSeq(s, 1, n)
       ELSE << >>

\* C11: for every name "A::f" with A a non-empty segment that is no colour
\* or function token and f the token of a function, LedInfo::from_string
\* yields device_name = Some(A), color = None and function = Some(the
\* function whose token is f).
C11_EmptyColorSegment ==
    \A f \in LedFunction :
        (/\ parse.pc = "done"
         /\ DeviceOfTwoPart(parse.s, LedFunction_to_string(f)) # << >>)
        => /\ parse.info.device_name
                = << DeviceOfTwoPart(parse.s, LedFunction_to_string(f)) >>
           /\ parse.info.color = << >>
           /\ parse.info.function = << f >>

\* "asus::kbd_backlight" was parsed: device name "asus", no colour, function
\* KbdBacklight.
C11_Witness ==
    /\ parse.pc = "done"
    /\ parse.s = asus_kbd_backlight
    /\ parse.info.device_name = << <<"a", "s", "u", "s">> >>
    /\ parse.info.color = << >>
    /\ parse.info.function = << "KbdBacklight" >>

\* t occurs in s from position k on.
OccursAt(s, t, k) ==
    /\ k + Len(t) - 1 <= Len(s)
    /\ SubSeq(s, k, k + Len(t) - 1) = t

\* s with the Len(t) characters from position k on taken out.
Without(s, t, k) == SubSeq(s, 1, k - 1) \o SubSeq(s, k + Len(t), Len(s))

\* The name in `parse` holds no colon and its parse has returned.
ColonFree == parse.pc = "done" /\ \A k \in 1..Len(parse.s) : parse.s[k] # ":"

\* C12 as stated: for a name without a colon, device_name is None only if no
\* token occurs in the name or nothing but the token is left of it; and when
\* a token occurs in the name, one occurrence is extracted into color or
\* function and the rest of the name becomes device_name.
C12_AsStated ==
    ColonFree
    => LET s == parse.s
           hits == { <<"color", c, k>> : c \in LedColor, k \in 1..Len(s) }
                   \cup { <<"function", f, k>> : f \in LedFunction,
                                                  k \in 1..Len(s) }
           token(h) == IF h[1] = "color" THEN LedColor_to_string(h[2])
                       ELSE LedFunction_to_string(h[2])
           found == { h \in hits : OccursAt(s, token(h), h[3]) }
           rest(h) == Without(s, token(h), h[3])
       IN /\ parse.info.device_name = << >>
            => \A h \in found : rest(h) = << >>
          /\ found # {}
            => \E h \in found :
                /\ parse.info[h[1]] = << h[2] >>
                /\ parse.info.device_name
                    = IF rest(h) = << >> THEN << >> ELSE << rest(h) >>

\* C12, amended: for a name without a colon, from_string compares the whole
\* name with the tokens and extracts no substring.  The empty name gives
\* None in all three fields; a name that is exactly a colour token gives that
\* colour and device_name = None; a name that is exactly a function token
\* gives that function and device_name = None; every other name becomes
\* device_name whole, with color = None and function = None.
C12_WholeNameOnly ==
    ColonFree
    => LET s == parse.s
           info == parse.info
       IN IF s = << >>
          THEN info.device_name = << >> /\ info.color = << >>
               /\ info.function = << >>
          ELSE IF s \in ColorTokens
          THEN /\ info.device_name = << >>
               /\ info.color # << >>
               /\ LedColor_to_string(info.color[1]) = s
               /\ info.function = << >>
          ELSE IF s \in FunctionTokens
          THEN /\ info.device_name = << >>
               /\ info.color = << >>
               /\ info.function # << >>
               /\ LedFunction_to_string(info.function[1]) = s
          ELSE /\ info.device_name = << s >>
               /\ info.color = << >>
               /\ info.function = << >>

\* "red-led" was parsed: it is the device name whole, and no colour was
\* taken out of it.
C12_Witness ==
    /\ parse.pc = "done"
    /\ parse.s = <<"r", "e", "d", "-", "l", "e", "d">>
    /\ parse.info.device_name = << <<"r", "e", "d", "-", "l", "e", "d">> >>
    /\ parse.info.color = << >>
    /\ parse.info.function = << >>

\* C13: from_string(s) returns a LedInfo whose device is s unchanged, for
\* every s, the empty string and strings of colons included; and a record
\* returned by get_led_device(name) or get_monitor_device(name) answers
\* get_device_name() with name.
C13_DeviceKept ==
    /\ last.op = "from_string"
        => IsOk(last.res) /\ last.res.val.device = last.arg.s
    /\ (last.op = "get_led_device" /\ IsOk(last.res))
        => LedDevice_get_device_name(last.res.val) = last.arg.device
    /\ (last.op = "get_monitor_device" /\ IsOk(last.res))
        => MonitorDevice_get_device_name(last.res.val) = last.arg.device

\* get_led_device("asus::kbd_backlight") returned a record, whose parsed
\* device_name is "asus" and whose device is the name asked for.
C13_Witness ==
    /\ last.op = "get_led_device"
    /\ last.arg.device = asus_kbd_backlight
    /\ IsOk(last.res)
    /\ last.res.val.info.device_name = << <<"a", "s", "u", "s">> >>
    /\ LedDevice_get_device_name(last.res.val) = asus_kbd_backlight

\* The eleven colour tokens.
ElevenColorTokens ==
    { <<"w", "h", "i", "t", "e">>, <<"r", "e", "d">>,
      <<"g", "r", "e", "e", "n">>, <<"b", "l", "u", "e">>,
      <<"a", "m", "b", "e", "r">>, <<"v", "i", "o", "l", "e", "t">>,
      <<"y", "e", "l", "l", "o", "w">>, <<"i", "r">>,
      <<"m", "u", "l", "t", "i">>, <<"r", "g", "b">>, <<"m", "a", "x">> }

\* The last call turned a variant into text.
Stringified(enum) ==
    IF enum = "LedColor"
    THEN last.op \in {"LedColor::to_string", "LedColor::into"}
    ELSE last.op \in {"LedFunction::to_string", "LedFunction::into"}

\* C14: the conversions to text and from_id are inverse to each other.
\* Every stringification of a variant v (Display and the four From
\* conversions) gives the same token, and from_id of that token is Some(v);
\* distinct variants have distinct tokens; from_id of a string that is no
\* token (a token in another letter case or with white space around it, the
\* empty string) is None; and LedColor::from_id accepts exactly the eleven
\* tokens white, red, green, blue, amber, violet, yellow, ir, multi, rgb, max.
C14_TokenBijection ==
    /\ Stringified("LedColor")
        => /\ last.res = LedColor_to_string(last.arg.val)
           /\ LedColor_from_id(last.res) = << last.arg.val >>
           /\ \A w \in LedColor \ {last.arg.val} :
                \A target \in IntoTargets :
                    /\ LedColor_into(target, w) # last.res
                    /\ LedColor_to_string(w) # last.res
    /\ Stringified("LedFunction")
        => /\ last.res = LedFunction_to_string(last.arg.val)
           /\ LedFunction_from_id(last.res) = << last.arg.val >>
           /\ \A w \in LedFunction \ {last.arg.val} :
                \A target \in IntoTargets :
                    /\ LedFunction_into(target, w) # last.res
                    /\ LedFunction_to_string(w) # last.res
    /\ last.op = "LedColor::from_id"
        => /\ last.res # << >> <=> last.arg.s \in ElevenColorTokens
           /\ last.res # << >>
                => /\ last.res[1] \in LedColor
                   /\ LedColor_to_string(last.res[1]) = last.arg.s
    /\ last.op = "LedFunction::from_id"
        => /\ last.res # << >> <=> last.arg.s \in FunctionTokens
           /\ last.res # << >>
                => /\ last.res[1] \in LedFunction
                   /\ LedFunction_to_string(last.res[1]) = last.arg.s

\* LedColor::from_id("Red") returned None.
C14_Witness ==
    /\ last.op = "LedColor::from_id"
    /\ last.arg.s = <<"R", "e", "d">>
    /\ last.res = << >>

\* pat occurs in s; the empty pattern occurs in every string.
IsSubstring(pat, s) == \E k \in 1..(Len(s) + 1) : OccursAt(s, pat, k)

\* A field of a filter is set and the text it stands for occurs in the name.
FieldMatches(field, text, name) == field # << >> /\ IsSubstring(text, name)

\* C15: filter(name) is true exactly when at least one populated field
\* matches: device_name is set and occurs in name, or color is set and its
\* token occurs in name, or function is set and its token occurs in name.
\* A filter with device_name and color both set matches a name that holds
\* either of them.
C15_FilterIsOr ==
    last.op = "LedFilterable::filter"
    => LET flt == last.arg.f
           name == last.arg.name
       IN last.res
          <=> \/ FieldMatches(flt.device_name,
                    IF flt.device_name = << >> THEN << >>
                    ELSE flt.device_name[1], name)
              \/ FieldMatches(flt.color,
                    IF flt.color = << >> THEN << >>
                    ELSE LedColor_to_string(flt.color[1]), name)
              \/ FieldMatches(flt.function,
                    IF flt.function = << >> THEN << >>
                    ELSE LedFunction_to_string(flt.function[1]), name)

\* The filter {device_name "phy", color Red} matched "phy0-led", which holds
\* the device name and not the colour.
C15_Witness ==
    /\ last.op = "LedFilterable::filter"
    /\ last.arg.f = [device_name |-> << <<"p", "h", "y">> >>,
                     color |-> << "Red" >>, function |-> << >>]
    /\ last.arg.name = phy0_led
    /\ last.res = TRUE

\* The raw name satisfies the filter: a populated field occurs in it.
Satisfies(flt, name) ==
    \/ flt.device_name # << >> /\ IsSubstring(flt.device_name[1], name)
    \/ flt.color # << >>
        /\ IsSubstring(LedColor_to_string(flt.color[1]), name)
    \/ flt.function # << >>
        /\ IsSubstring(LedFunction_to_string(flt.function[1]), name)

\* The entries of the LED root whose raw name satisfies the filter, in
\* listing order.  An entry that cannot be read, or whose name is not UTF-8,
\* has no name to satisfy it.
MatchingEntries(flt) ==
    SelectSeq(fs[LEDS_DIR].entries,
              LAMBDA e : e.kind \in {"dir", "file"} /\ Satisfies(flt, e.name))

\* What the filtered listing is to return: the records of the matching
\* entries in order, or the error of the first of them that fails.
FilteredResult(flt) ==
    LET m == MatchingEntries(flt)
        got(k) == get_led_device(fs, m[k].name).res
        bad == { k \in 1..Len(m) : ~IsOk(got(k)) }
    IN IF fs[LEDS_DIR].root = "absent" THEN Ok(<< >>)
       ELSE IF bad = {} THEN Ok([k \in 1..Len(m) |-> got(k).val])
       ELSE got(CHOOSE k \in bad : \A j \in bad : k <= j)

\* C16: get_led_devices_with_filter(f) materializes exactly the entries whose
\* raw name satisfies f, in listing order.  Its result is the records of
\* these entries, which on success are the records of get_all_led_devices()
\* restricted to the names satisfying f; when a matching entry fails to
\* materialize the call returns that error; an entry that does not satisfy f
\* is never read and cannot make the call fail; an absent LED root gives
\* Ok(empty).
C16_FilteredListing ==
    last.op = "get_led_devices_with_filter"
    => LET flt == last.arg.f
           all == get_all_led_devices(fs).res
       IN /\ last.res = FilteredResult(flt)
          /\ \A k \in 1..Len(last.reads) :
                /\ last.reads[k].dir = LEDS_DIR
                /\ \E j \in 1..Len(MatchingEntries(flt)) :
                        MatchingEntries(flt)[j].name = last.reads[k].device
          /\ (IsOk(last.res) /\ IsOk(all))
                => last.res.val
                    = SelectSeq(all.val,
                                LAMBDA d : Satisfies(flt, d.info.device))

\* C17: in every state of the file tree get_all_keyboard_devices() returns
\* what get_led_devices_with_filter returns for the filter with device_name =
\* None, color = None and function = Some(KbdBacklight), and reads the same
\* files.
C17_KeyboardIsFilter ==
    last.op = "get_all_keyboard_devices"
    => LET same == get_led_devices_with_filter(fs,
                        [device_name |-> << >>, color |-> << >>,
                         function |-> << "KbdBacklight" >>])
       IN last.res = same.res /\ last.reads = same.reads

\* get_all_keyboard_devices() returned the record of asus::kbd_backlight
\* and no other.
C17_Witness ==
    /\ last.op = "get_all_keyboard_devices"
    /\ IsOk(last.res)
    /\ Len(last.res.val) = 1
    /\ last.res.val[1].info.device = asus_kbd_backlight
    /\ last.res.val[1].info.function = << "KbdBacklight" >>

\* The records the last call returned, when it is one of the four reads of
\* devices and returned Ok.
ReturnedRecords ==
    IF last.op \in {"get_monitor_device", "get_led_device"} /\ IsOk(last.res)
    THEN << last.res.val >>
    ELSE IF last.op \in {"get_all_monitor_devices", "get_all_led_devices"}
            /\ IsOk(last.res)
    THEN last.res.val
    ELSE << >>

\* The last call read monitors.
ReadMonitors == last.op \in {"get_monitor_device", "get_all_monitor_devices"}

RECURSIVE Numeral(_)
Numeral(t) ==
    IF Len(t) > 1 /\ t[1] \in {"+", "0"} THEN Numeral(Tail(t)) ELSE t

\* a <= b for two numerals.
NumeralLe(a, b) == Len(a) < Len(b) \/ (Len(a) = Len(b) /\ DigitsLe(a, b))

\* The attribute files of the entry a record was read from.
AttrsOf(dir, name) ==
    LET i == CHOOSE i \in 1..Len(fs[dir].entries) :
                fs[dir].entries[i].name = name
    IN fs[dir].entries[i].attrs

\* The content of `file` is at most the content of max_brightness.
FileLeMax(attrs, file) ==
    NumeralLe(Numeral(Trimmed(attrs[file][1])),
              Numeral(Trimmed(attrs["max_brightness"][1])))

BothWrote ==
    /\ callers.c[1].pc = "done" /\ IsOk(callers.c[1].res)
    /\ callers.c[2].pc = "done" /\ IsOk(callers.c[2].res)
    /\ callers.c[1].self.dir = callers.c[2].self.dir
    /\ callers.c[1].self.device = callers.c[2].self.device

\* The level of caller c is at most the max_brightness of the record it
\* holds and of the device.
WithinMax(c) ==
    LET me == callers.c[c]
    IN /\ U32Le(me.level, me.self.max_brightness)
       /\ NumeralLe(U32ToString(me.level),
            Numeral(Trimmed(
                AttrsOf(me.self.dir, me.self.device)["max_brightness"][1])))

\* C19: when two callers run set_brightness(a) and set_brightness(b) on the
\* same device at the same time, a and b both at most max_brightness, and
\* both writes succeed, then whatever the interleaving the brightness of the
\* device ends as the level of the caller whose write came last, which is a
\* or b.
C19_LastWriteWins ==
    (BothWrote /\ WithinMax(1) /\ WithinMax(2))
    => LET winner == callers.c[callers.wrote[Len(callers.wrote)]]
           shown == AttrsOf(winner.self.dir, winner.self.device)["brightness"]
       IN /\ Len(callers.wrote) = 2
          /\ shown # << >>
          /\ Trimmed(shown[1]) = U32ToString(winner.level)
          /\ winner.level \in {callers.c[1].level, callers.c[2].level}

\* Caller 1 entered set_brightness(50) on amdgpu_bl0 and caller 2 ran its
\* set_brightness(100) on it meanwhile; caller 2 wrote first, caller 1
\* last, and the device shows 50.
C19_Witness ==
    /\ BothWrote /\ WithinMax(1) /\ WithinMax(2)
    /\ callers.overlap
    /\ callers.wrote = <<2, 1>>
    /\ callers.c[1].level # callers.c[2].level
    /\ callers.c[1].self.device = amdgpu_bl0
    /\ Trimmed(AttrsOf(BACKLIGHT_DIR, amdgpu_bl0)["brightness"][1])
        = U32ToString(callers.c[1].level)

\* The class root of the family a lookup probes.
ProbedRoot ==
    IF last.op = "get_monitor_device" THEN BACKLIGHT_DIR ELSE LEDS_DIR

\* C20 as stated: the InvalidDeviceName of a failed lookup displays the class
\* root of the family that was probed, followed by the requested name: the
\* backlight root for get_monitor_device, the LED root for get_led_device.
C20_RootOfFamily ==
    (/\ last.op \in {"get_monitor_device", "get_led_device"}
     /\ IsErr(last.res)
     /\ last.res.err.kind = "InvalidDeviceName"
     /\ last.shown # << >>)
    => last.shown[1].args = << ProbedRoot, last.arg.device >>

\* The value v is the number the attribute file `file` shows now.
ShowsNow(attrs, file, v) ==
    /\ attrs[file] # << >>
    /\ U32ToString(v) = Numeral(Trimmed(attrs[file][1]))

\* C21: nothing is cached between queries.  A record returned by
\* get_monitor_device(name) or get_led_device(name) holds the values the
\* attribute files of the device show at the time of that call, also when
\* the environment has changed them since the start or since an earlier
\* call; and a device whose files are well-formed now is returned, whatever
\* an earlier call found.
C21_NothingCached ==
    /\ (last.op = "get_monitor_device" /\ IsOk(last.res))
        => LET a == AttrsOf(BACKLIGHT_DIR, last.arg.device)
               r == last.res.val
           IN /\ ShowsNow(a, "bl_power", r.bl_power)
              /\ ShowsNow(a, "brightness", r.brightness)
              /\ ShowsNow(a, "actual_brightness", r.actual_brightness)
              /\ ShowsNow(a, "max_brightness", r.max_brightness)
              /\ a["type"] # << >>
              /\ TypeNamed(Trimmed(a["type"][1])) = r.bl_type
    /\ (last.op = "get_led_device" /\ IsOk(last.res))
        => LET a == AttrsOf(LEDS_DIR, last.arg.device)
               r == last.res.val
           IN /\ ShowsNow(a, "brightness", r.brightness)
              /\ ShowsNow(a, "max_brightness", r.max_brightness)
    /\ \A i \in 1..Len(fs[BACKLIGHT_DIR].entries) :
        (/\ last.op = "get_monitor_device"
         /\ last.arg.device = fs[BACKLIGHT_DIR].entries[i].name
         /\ WellFormedMonitor(i))
        => IsOk(last.res)

\* The environment gave the brightness file of amdgpu_bl0, 50 at the start,
\* the content " 7 \n", and the get_monitor_device after it returned 7.
C21_Witness ==
    /\ last.op = "get_monitor_device"
    /\ last.arg.device = amdgpu_bl0
    /\ changes = 1
    /\ IsOk(last.res)
    /\ last.res.val.brightness = [hi |-> 0, lo |-> 7]
    /\ AttrsOf(BACKLIGHT_DIR, amdgpu_bl0)["brightness"]
        = << <<" ", "7", " ", "\n">> >>

\* t is text str::parse::<u32>() accepts: an optional '+', then one or more
\* decimal digits whose value is at most 4294967295.
AcceptsU32(t) ==
    LET d == IF t # << >> /\ t[1] = "+" THEN Tail(t) ELSE t
    IN /\ d # << >>
       /\ \A k \in 1..Len(d) : IsDigit(d[k])
       /\ NumeralLe(Numeral(d),
                    <<"4", "2", "9", "4", "9", "6", "7", "2", "9", "5">>)

\* The attribute `file` cannot be read into a record: the file is missing,
\* or its trimmed content is no u32 (for `type`: names no backlight type).
AttrFails(attrs, file) ==
    \/ attrs[file] = << >>
    \/ IF file = "type"
       THEN TypeNamed(Trimmed(attrs[file][1])) = "none"
       ELSE ~AcceptsU32(Trimmed(attrs[file][1]))

\* The attribute files of a family in the order the lookup reads them.
ReadOrder(dir) ==
    IF dir = BACKLIGHT_DIR
    THEN <<"bl_power", "brightness", "actual_brightness", "max_brightness",
           "type">>
    ELSE <<"brightness", "max_brightness">>

\* The position in ReadOrder of the first attribute that fails, 0 if none.
FirstFailure(dir, attrs) ==
    LET bad == { k \in 1..Len(ReadOrder(dir)) :
                    AttrFails(attrs, ReadOrder(dir)[k]) }
    IN IF bad = {} THEN 0 ELSE CHOOSE k \in bad : \A j \in bad : k <= j

\* The call in `last` looked up a name that is a device directory.
LookupOfDir ==
    /\ last.op \in {"get_monitor_device", "get_led_device"}
    /\ last.arg.device # << >>
    /\ IsDeviceDir(LookupDir, last.arg.device)

\* C22: a lookup reads the attributes in the order bl_power, brightness,
\* actual_brightness, max_brightness, type (brightness, max_brightness for
\* LEDs), each number as a u32; it returns the record when none fails, and
\* otherwise the error of the first attribute that fails, which is
\* ParseBrightnessError when the file is there, having read no file after
\* that one.
C22_FirstFailure ==
    LookupOfDir
    => LET attrs == AttrsOf(LookupDir, last.arg.device)
           k == FirstFailure(LookupDir, attrs)
       IN IF k = 0 THEN IsOk(last.res)
          ELSE /\ IsErr(last.res)
               /\ Len(last.reads) = k
               /\ last.reads[k].file = ReadOrder(LookupDir)[k]
               /\ IF attrs[ReadOrder(LookupDir)[k]] = << >>
                  THEN last.res.err.kind = "Io"
                  ELSE last.res.err.kind = "ParseBrightnessError"

\* The positions where a non-empty segment of s starts, and where one ends.
SegStarts(s) == { i \in 1..Len(s) : s[i] # ":" /\ (i = 1 \/ s[i - 1] = ":") }
SegEnds(s) == { j \in 1..Len(s) : s[j] # ":" /\ (j = Len(s) \/ s[j + 1] = ":") }

\* The k-th smallest member of a set of numbers.
Nth(S, k) == CHOOSE x \in S : Cardinality({ y \in S : y < x }) = k - 1

\* The k-th non-empty segment of s.
NonEmptySegment(s, k) == SubSeq(s, Nth(SegStarts(s), k), Nth(SegEnds(s), k))

\* C23: when the name has exactly three non-empty segments, from_string
\* assigns by position and reports no error: device_name is Some(segment 1)
\* whatever that segment is; color is the colour whose token segment 2 is,
\* None when segment 2 is no colour token; function is the function whose
\* token segment 3 is, None when segment 3 is no function token.  A token
\* in another position is not looked for.
C23_ByPosition ==
    (parse.pc # "idle" /\ Cardinality(SegStarts(parse.s)) = 3)
    => LET s == parse.s
       IN /\ parse.pc = "done"
          /\ parse.iters = 0
          /\ parse.info.device_name = << NonEmptySegment(s, 1) >>
          /\ parse.info.color
                = IF NonEmptySegment(s, 2) \in ColorTokens
                  THEN << CHOOSE c \in LedColor :
                            LedColor_to_string(c) = NonEmptySegment(s, 2) >>
                  ELSE << >>
          /\ parse.info.function
                = IF NonEmptySegment(s, 3) \in FunctionTokens
                  THEN << CHOOSE f \in LedFunction :
                            LedFunction_to_string(f) = NonEmptySegment(s, 3) >>
                  ELSE << >>

\* "red:power:red" was parsed: device_name is the colour token "red", and
\* neither the function token in the second place nor the colour token in
\* the third is taken.
C23_Witness ==
    /\ parse.pc = "done"
    /\ parse.s = <<"r", "e", "d", ":", "p", "o", "w", "e", "r", ":", "r", "e", "d">>
    /\ parse.info.device_name = << <<"r", "e", "d">> >>
    /\ parse.info.color = << >>
    /\ parse.info.function = << >>

\* The attribute files get_led_device has no use for.
MonitorOnlyFiles == {"bl_power", "actual_brightness", "type"}

\* The tree with exactly the files S of MonitorOnlyFiles present in every
\* LED entry of the given name.
WithMonitorFiles(name, S) ==
    [fs EXCEPT ![LEDS_DIR].entries =
        [i \in 1..Len(fs[LEDS_DIR].entries) |->
            LET e == fs[LEDS_DIR].entries[i]
            IN IF e.name # name THEN e
               ELSE [e EXCEPT !.attrs =
                        [a \in AttrFiles |->
                            IF a \notin MonitorOnlyFiles THEN e.attrs[a]
                            ELSE IF a \in S THEN << <<"0", "\n">> >>
                            ELSE << >>]]]]

\* C24: get_led_device(name) depends only on the directory <leds_root>/<name>
\* and its files brightness and max_brightness.  It reads no other file,
\* its result is the same whichever of bl_power, actual_brightness and type
\* exist in the directory, and when the two files hold numbers it succeeds
\* with these numbers and info = LedInfo::from_string(name).
C24_LedFilesOnly ==
    last.op = "get_led_device"
    => LET name == last.arg.device
       IN /\ \A k \in 1..Len(last.reads) :
                /\ last.reads[k].dir = LEDS_DIR
                /\ last.reads[k].file \in {"brightness", "max_brightness"}
          /\ \A S \in SUBSET MonitorOnlyFiles :
                get_led_device(WithMonitorFiles(name, S), name)
                    = [res |-> last.res, reads |-> last.reads]
          /\ (/\ LookupOfDir
              /\ FirstFailure(LEDS_DIR, AttrsOf(LEDS_DIR, name)) = 0)
             => /\ IsOk(last.res)
                /\ ShowsNow(AttrsOf(LEDS_DIR, name), "brightness",
                            last.res.val.brightness)
                /\ ShowsNow(AttrsOf(LEDS_DIR, name), "max_brightness",
                            last.res.val.max_brightness)
                /\ Ok(last.res.val.info) = LedInfo_from_string(name)

\* get_led_device("asus::kbd_backlight") returned the record 1 of 3 with the
\* parsed name although the directory holds none of bl_power,
\* actual_brightness and type.
C24_Witness ==
    /\ last.op = "get_led_device"
    /\ last.arg.device = asus_kbd_backlight
    /\ \A a \in MonitorOnlyFiles : AttrsOf(LEDS_DIR, asus_kbd_backlight)[a] = << >>
    /\ IsOk(last.res)
    /\ last.res.val.brightness = [hi |-> 0, lo |-> 1]
    /\ last.res.val.max_brightness = [hi |-> 0, lo |-> 3]
    /\ last.res.val.info.function = << "KbdBacklight" >>

\* The value the calls of `chain` gave the field set by the call `op`: the
\* argument of the last such call, None when there is none.
SetByChain(chain, op) ==
    LET hits == { k \in 1..Len(chain) : chain[k].op = op }
    IN IF hits = {} THEN << >>
       ELSE << chain[CHOOSE k \in hits : \A j \in hits : j <= k].x >>

\* C25: the LedFilterable builder sets only the field it names.  new() has
\* the three fields unset; with_device_name, with_color and with_function
\* set their own field and leave the other two as they were; finish()
\* returns the filter with the same fields, so that a chain of calls gives
\* the literal filter holding the values the chain named and None elsewhere.
C25_BuilderFrame ==
    /\ last.op = "LedFilterable::new"
        => last.res = [device_name |-> << >>, color |-> << >>,
                       function |-> << >>]
    /\ last.op = "LedFilterable::with_device_name"
        => last.res = [device_name |-> << last.arg.x >>,
                       color |-> last.arg.self.color,
                       function |-> last.arg.self.function]
    /\ last.op = "LedFilterable::with_color"
        => last.res = [device_name |-> last.arg.self.device_name,
                       color |-> << last.arg.x >>,
                       function |-> last.arg.self.function]
    /\ last.op = "LedFilterable::with_function"
        => last.res = [device_name |-> last.arg.self.device_name,
                       color |-> last.arg.self.color,
                       function |-> << last.arg.x >>]
    /\ last.op = "LedFilterable::finish"
        => /\ last.res = last.arg.self
           /\ last.res
                = [device_name |->
                        SetByChain(last.arg.chain,
                                   "LedFilterable::with_device_name"),
                   color |-> SetByChain(last.arg.chain,
                                        "LedFilterable::with_color"),
                   function |-> SetByChain(last.arg.chain,
                                           "LedFilterable::with_function")]

\* new().with_device_name("dev").finish() returned the filter
\* {device_name: Some("dev"), color: None, function: None}.
C25_Witness ==
    /\ last.op = "LedFilterable::finish"
    /\ Len(last.arg.chain) = 2
    /\ last.arg.chain[1].op = "LedFilterable::new"
    /\ last.arg.chain[2] = [op |-> "LedFilterable::with_device_name",
                            x |-> <<"d", "e", "v">>]
    /\ last.res = [device_name |-> << <<"d", "e", "v">> >>, color |-> << >>,
                   function |-> << >>]

\* The record the device `name` under `dir` had before anything was removed.
WholeRecord(dir, name) ==
    IF dir = BACKLIGHT_DIR THEN get_monitor_device(InitFs, name).res.val
    ELSE get_led_device(InitFs, name).res.val

\* The name a returned record carries.
RecordName(dir, r) == IF dir = BACKLIGHT_DIR THEN r.device ELSE r.info.device

\* C26: when the environment removes a device directory after the class root
\* was listed, or an attribute file after the probe of its directory, the
\* running get_all_* / get_*_device / filtered listing returns an error at
\* once, InvalidDeviceName or Io.  It never reads a file twice, never passes
\* over a listed entry and never returns a record made of a part of the
\* attributes: an Ok result holds one whole record for every listed entry,
\* in listing order.
C26_RemovalEndsTheCall ==
    scan.pc = "done"
    => /\ scan.res.tag \in {"Ok", "Err"}
       /\ \A i, j \in 1..Len(scan.reads) : i # j => scan.reads[i] # scan.reads[j]
       /\ IsErr(scan.res)
            => /\ scan.res.err.kind \in {"InvalidDeviceName", "Io"}
               /\ scan.res.err.kind = "InvalidDeviceName"
                    => /\ scan.res.err.device = scan.device
                       /\ ~PathIsDir(fs, scan.dir, scan.device)
                       /\ \A k \in 1..Len(scan.reads) :
                            scan.reads[k].device # scan.device
               /\ scan.res.err.kind = "Io"
                    => LET f == scan.reads[Len(scan.reads)]
                       IN /\ f.device = scan.device
                          /\ ~IsOk(ReadToString(fs, f.dir, f.device, f.file))
       /\ (IsOk(scan.res) /\ scan.op = "get_device")
            => scan.res.val = WholeRecord(scan.dir, scan.device)
       /\ (IsOk(scan.res) /\ scan.op # "get_device")
            => /\ Len(scan.res.val) = Len(scan.listed)
               /\ \A k \in 1..Len(scan.listed) :
                    /\ RecordName(scan.dir, scan.res.val[k]) = scan.listed[k]
                    /\ scan.res.val[k] = WholeRecord(scan.dir, scan.listed[k])

\* get_all_monitor_devices listed amdgpu_bl0 and intel_backlight and read
\* the five files of amdgpu_bl0; the directory intel_backlight was removed
\* before its probe, and the call returned InvalidDeviceName for it.
C26_Witness ==
    /\ scan.pc = "done"
    /\ scan.op = "get_all"
    /\ scan.listed = <<amdgpu_bl0, intel_backlight>>
    /\ Len(scan.reads) = 5
    /\ changes = 1
    /\ Len(fs[BACKLIGHT_DIR].entries) = 1
    /\ scan.res = [tag |-> "Err",
                   err |-> [kind |-> "InvalidDeviceName",
                            device |-> intel_backlight]]

\* The number of non-empty segments of the name in `parse`.
SegmentCount == Cardinality(SegStarts(parse.s))

\* C27: the fallback scan of LedInfo::from_string terminates for every name
\* and never indexes the segment list out of range.  While it runs, the
\* index is 0 and the list holds the segments of the name less one per
\* iteration made; it returns after as many iterations as the name has
\* non-empty segments, with an empty list, and a name without a non-empty
\* segment yields device_name = None, color = None and function = None.
C27_ScanTerminates ==
    /\ [](/\ parse.pc # "panic"
          /\ parse.pc = "loop"
                => /\ ~parse.st.panicked
                   /\ parse.st.idx = 0
                   /\ Len(parse.st.led_info) + parse.iters = SegmentCount
          /\ (parse.pc = "done" /\ SegmentCount # 3)
                => parse.iters = SegmentCount
          /\ (parse.pc = "done" /\ SegmentCount = 0)
                => /\ parse.info.device_name = << >>
                   /\ parse.info.color = << >>
                   /\ parse.info.function = << >>)
    /\ (parse.pc = "loop") ~> (parse.pc = "done")

\* The scan of a name of four non-empty segments has returned after four
\* iterations.
C27_Witness ==
    /\ parse.pc = "done"
    /\ SegmentCount = 4
    /\ parse.iters = 4

\* C28: set_brightness never changes the record it is called on.  After a
\* successful or a failed set_brightness(level) the record is the one the
\* call was made on, so that get_brightness() and get_max_brightness() give
\* the values captured at discovery; and the call is rejected with
\* InvalidBrightnessLevel exactly when level is above the record's own
\* max_brightness, whatever the max_brightness file holds.
C28_RecordUnchanged ==
    last.op = "set_brightness"
    => /\ last.arg.after = last.arg.self
       /\ get_brightness(last.arg.after) = last.arg.self.brightness
       /\ get_max_brightness(last.arg.after) = last.arg.self.max_brightness
       /\ (/\ IsErr(last.res)
           /\ last.res.err.kind = "InvalidBrightnessLevel")
            <=> Above(last.arg.level, last.arg.self.max_brightness)
       /\ (IsErr(last.res) /\ last.res.err.kind = "InvalidBrightnessLevel")
            => /\ last.res.err.given = last.arg.level
               /\ last.res.err.max = last.arg.self.max_brightness

\* The max_brightness file of amdgpu_bl0 was raised to 4294967295, and
\* set_brightness(150) on the record discovered with max_brightness 100 was
\* rejected all the same; the record still shows brightness 50.
C28_Witness ==
    /\ last.op = "set_brightness"
    /\ last.arg.device = amdgpu_bl0
    /\ AttrsOf(BACKLIGHT_DIR, amdgpu_bl0)["max_brightness"]
        = << <<"4", "2", "9", "4", "9", "6", "7", "2", "9", "5", "\n">> >>
    /\ last.arg.self.max_brightness = [hi |-> 0, lo |-> 100]
    /\ last.arg.level = [hi |-> 0, lo |-> 150]
    /\ IsErr(last.res)
    /\ last.res.err.kind = "InvalidBrightnessLevel"
    /\ last.arg.after.brightness = [hi |-> 0, lo |-> 50]

\* C29 as stated: every LedDevice returned by get_all_keyboard_devices() has
\* info.function = Some(KbdBacklight), whatever the names of the entries
\* under the LED root.
C29_KeyboardFunction ==
    (last.op = "get_all_keyboard_devices" /\ IsOk(last.res))
    => \A k \in 1..Len(last.res.val) :
            last.res.val[k].info.function = << "KbdBacklight" >>

\* The token of LedFunction::KbdBacklight.
KbdToken == <<"k", "b", "d", "_", "b", "a", "c", "k", "l", "i", "g", "h", "t">>

\* The names of the listed LED entries that hold the token somewhere.
KbdNamed ==
    SelectSeq([i \in 1..Len(fs[LEDS_DIR].entries) |->
                    fs[LEDS_DIR].entries[i].name],
              LAMBDA n : IsSubstring(KbdToken, n))

\* C29, amended: get_all_keyboard_devices() returns the entries whose raw
\* name contains "kbd_backlight", all of them and in listing order.
\* info.function of a returned device is Some(KbdBacklight) when the token
\* is the last non-empty segment of the name; it is None or another
\* function when the token is part of a longer segment or stands in another
\* place.
C29_KeyboardByName ==
    (last.op = "get_all_keyboard_devices" /\ IsOk(last.res))
    => /\ [k \in 1..Len(last.res.val) |-> last.res.val[k].info.device]
            = KbdNamed
       /\ \A k \in 1..Len(last.res.val) :
            LET n == last.res.val[k].info.device
            IN NonEmptySegment(n, Cardinality(SegStarts(n))) = KbdToken
                => last.res.val[k].info.function = << "KbdBacklight" >>

\* get_all_keyboard_devices() returned the entry "kbd_backlight:red:power",
\* whose function is Power, and the entry "asus_kbd_backlight", whose
\* function is None.
C29_Witness ==
    /\ last.op = "get_all_keyboard_devices"
    /\ IsOk(last.res)
    /\ Len(last.res.val) = 2
    /\ last.res.val[1].info.device_name = << KbdToken >>
    /\ last.res.val[1].info.function = << "Power" >>
    /\ last.res.val[2].info.device = <<"a", "s", "u", "s", "_">> \o KbdToken
    /\ last.res.val[2].info.function = << >>

\* The entries of the LED root whose raw name satisfies at least one filter
\* of the list, each once, in listing order.
MatchingAny(filters) ==
    SelectSeq(fs[LEDS_DIR].entries,
              LAMBDA e : /\ e.kind \in {"dir", "file"}
                         /\ \E k \in 1..Len(filters) : Satisfies(filters[k], e.name))

\* What the multi-filter listing is to return: the records of these entries
\* in order, or the error of the first of them that fails.
MultiFilteredResult(filters) ==
    LET m == MatchingAny(filters)
        got(k) == get_led_device(fs, m[k].name).res
        bad == { k \in 1..Len(m) : ~IsOk(got(k)) }
    IN IF fs[LEDS_DIR].root = "absent" THEN Ok(<< >>)
       ELSE IF bad = {} THEN Ok([k \in 1..Len(m) |-> got(k).val])
       ELSE got(CHOOSE k \in bad : \A j \in bad : k <= j)

\* C30 as stated: get_led_devices_with_multi_filter(fs) materializes exactly
\* the entries whose raw name is matched by at least one filter of fs, each
\* once, in listing order; for a list of one filter it returns what
\* get_led_devices_with_filter returns for that filter; for the empty list,
\* and for filters with no field set, it returns an empty collection.
C30_MultiFilter ==
    last.op = "get_led_devices_with_multi_filter"
    => LET filters == last.arg.f
       IN /\ last.res = MultiFilteredResult(filters)
          /\ Len(filters) = 1
                => /\ last.res = get_led_devices_with_filter(fs, filters[1]).res
                   /\ last.reads
                        = get_led_devices_with_filter(fs, filters[1]).reads
          /\ (\A k \in 1..Len(filters) :
                filters[k] = [device_name |-> << >>, color |-> << >>,
                              function |-> << >>])
                => last.res = [tag |-> "Ok", val |-> << >>]

=============================================================================
